---- MODULE Spec2Model ----
(***************************************************************************)
(* Model of the dataset analysis scripts (src/dataset_exam_*.py).  Each    *)
(* script is one batch run: load the sheet, validate the required columns, *)
(* clean, aggregate, report to the console, export.  A run is a behaviour; *)
(* the workbook it reads is chosen in Init.                                *)
(*                                                                         *)
(* Numbers: percentages are kept in hundredths of a percent (66.67 is      *)
(* 6667), i.e. exactly what round(2) leaves; the diversity index, a sum of *)
(* squares of those, is kept in units of 1/10000 (5555.6 is 55556000 or    *)
(* so).  Arithmetic is exact: the binary floating point error of the       *)
(* dataframe library (about 1e-13 relative) is not modelled.               *)
(***************************************************************************)
EXTENDS Integers, Sequences, FiniteSets, TLC

VARIABLES
    script,             \* which script runs
    archivo_existe,     \* environment: os.path.exists(archivo_excel)
    hoja,               \* environment: which sheet of the workbook can be read
    columnas,           \* environment: column names of that sheet
    filas,              \* environment: rows of that sheet
    pc,                 \* position of the run
    df,                 \* the loaded dataframe
    df_clean,           \* the cleaned dataframe
    total_registros,
    tabla_contingencia,
    tabla_porcentajes,
    df_top,
    stats_region,
    df_analisis,        \* devices script: one row per customer
    estadisticas,       \* devices script: the summary counts
    dispositivo_counts, \* devices script: customers per device
    df_multiples,       \* devices script: sheet 'Clientes Múltiples'
    df_dispositivos,    \* devices script: sheet 'Dispositivos'
    analisis_completo,  \* screentime script: one row per customer
    clientes_valiosos,  \* screentime script: the rows of the valuable customers
    contador,           \* customers script: the records of each id
    resultados,         \* customers script: the table written as CSV
    conteo_generos,     \* genre script: the views of each genre
    reporte_df,         \* genre script: the report table
    conteo_shows,       \* top-shows script: one row per (TITLE, GENRE)
    top_show_por_genero, \* top-shows script: table 'Top por Género'
    datos_grafico,      \* genre and top-shows scripts: what the pie chart shows
    top_n,              \* top-shows script: parameter top_n
    consola,            \* what was printed, in order
    archivo_salida,     \* the output file on disk
    lecturas,           \* how many times the input workbook was read
    escrituras,         \* how many times the output file was written
    error,              \* how the run failed, "ninguno" if it did not
    resultado           \* what the analysis function returned

vars == <<script, archivo_existe, hoja, columnas, filas, pc, df, df_clean,
          total_registros, tabla_contingencia, tabla_porcentajes, df_top,
          stats_region, df_analisis, estadisticas, dispositivo_counts,
          df_multiples, df_dispositivos, analisis_completo, clientes_valiosos,
          contador, resultados, conteo_generos, reporte_df, conteo_shows,
          top_show_por_genero, datos_grafico, top_n, consola, archivo_salida, lecturas,
          escrituras, error, resultado>>

(***************************************************************************)
(* Bounds                                                                  *)
(***************************************************************************)
MaxRows == 4

\* Rows of the sheet given to the devices script.
MaxRowsDevices == 3

\* Rows of the sheet given to the screentime script.
MaxRowsScreentime == 3

\* Records of each of the two customers of a two-customer sheet.
MaxVistasCliente == 51

\* Rows of the sheet given to the customers script.
MaxRowsCustomers == 5

\* Rows of the sheet given to the genre script.
MaxRowsGenre == 4

\* Genres of a many-genre sheet.
MaxGenerosBloque == 12

\* Rows of the sheet given to the top-shows script.
MaxRowsShows == 4

\* Rows of a workbook whose data is on its second sheet.
MaxRowsSegunda == 2

\* Rows of a one-region sheet (SpecDiversidad).
MaxVistas == 20

\* Rows of each region of a two-region sheet (SpecRegiones).
MaxVistasRegion == 8

(***************************************************************************)
(* Cells and text.  A text is a sequence of tokens; the token " " is white *)
(* space, every other token is a run of non-blank characters.  A cell of   *)
(* the sheet is null (an empty spreadsheet cell) or holds a text.          *)
(***************************************************************************)
Blank == " "

NullCell == [nulo |-> TRUE, texto |-> <<>>]

Txt(t) == [nulo |-> FALSE, texto |-> t]

\* A cell that holds the number n.
Num(n) == [nulo |-> FALSE, numero |-> n]

\* Series.astype(str): a null becomes the text 'nan', nothing stays null.
AsTypeStr(c) == IF c.nulo THEN Txt(<<"nan">>) ELSE c

RECURSIVE LStrip(_)
LStrip(t) == IF t # <<>> /\ Head(t) = Blank THEN LStrip(Tail(t)) ELSE t

RECURSIVE RStrip(_)
RStrip(t) ==
    IF t # <<>> /\ t[Len(t)] = Blank THEN RStrip(SubSeq(t, 1, Len(t) - 1)) ELSE t

\* Series.str.strip(): nulls stay null, texts lose leading and trailing blanks.
StrStrip(c) == IF c.nulo THEN c ELSE Txt(RStrip(LStrip(c.texto)))

(***************************************************************************)
(* Labels.  The dataframe library sorts group labels as Python strings;    *)
(* Orden lists every text the model's sheets can produce in that order     *)
(* ('' first, upper case before lower case).                               *)
(***************************************************************************)
Orden == << <<>>, <<"Action">>, <<"Anime">>, <<"C1">>, <<"C2">>, <<"C3">>, <<"Comedy">>,
            <<"Crime">>, <<"Drama">>, <<"Fantasy">>, <<"Horror">>, <<"Kids">>,
            <<"Mobile">>, <<"Musical">>, <<"Otros">>, <<"RegionA">>, <<"RegionB">>,
            <<"Romance">>, <<"ShowA">>, <<"ShowB">>, <<"ShowC">>, <<"ShowD">>,
            <<"Sports">>, <<"TV">>, <<"Tablet">>, <<"Thriller">>, <<"Western">>,
            <<"nan">> >>

Rank(t) == CHOOSE i \in 1..Len(Orden) : Orden[i] = t

\* The members of S as a sequence in sorted label order.
SortedLabels(S) == SelectSeq(Orden, LAMBDA t : t \in S)

Range(s) == {s[i] : i \in 1..Len(s)}

Min(a, b) == IF a <= b THEN a ELSE b

RECURSIVE SumSeq(_)
SumSeq(s) == IF s = <<>> THEN 0 ELSE Head(s) + SumSeq(Tail(s))

RECURSIVE MaxSeq(_)
MaxSeq(s) ==
    IF Len(s) = 1 THEN Head(s)
    ELSE LET m == MaxSeq(Tail(s)) IN IF Head(s) >= m THEN Head(s) ELSE m

(***************************************************************************)
(* The scripts and the columns each one requires, in the order the         *)
(* validation loop tests them.                                             *)
(***************************************************************************)
columnas_requeridas(s) ==
    CASE s = "region_genre" -> <<"REGION", "GENRE">>
      [] s = "devices"      -> <<"CUSTOMER_ID", "DEVICE">>
      [] s = "screentime"   -> <<"CUSTOMER_ID", "SCREENTIME">>
      [] s = "customers"    -> <<"CUSTOMER_ID">>
      [] s = "genre"        -> <<"GENRE">>
      [] s = "top_shows"    -> <<"TITLE", "GENRE">>

(***************************************************************************)
(* Sheets the model draws its inputs from.  FilasPosibles(s) are the rows  *)
(* a sheet given to script s may hold: one region with four genres and a   *)
(* second with two, some cells padded with blanks, and rows with a null or *)
(* a blank cell; for the devices script every pairing of two customers     *)
(* with three devices, and rows with a null or a blank cell; for the       *)
(* screentime script every pairing of three customers with a screentime of *)
(* 0 to 3, and rows with a null cell or a screentime that is not a number; *)
(* for the customers script three ids, one of them also padded with a      *)
(* blank, and a null cell; for the genre script three genres, two of them  *)
(* padded, a blank and a null cell; for the top-shows script three titles  *)
(* in two genres, one title in both, and rows with a null or a blank cell. *)
(***************************************************************************)
FilasPosibles(s) ==
    CASE s = "region_genre" ->
            {[REGION |-> Txt(<<"RegionA">>), GENRE |-> g] :
                g \in {Txt(<<"Comedy">>), Txt(<<"Drama", Blank>>),
                       Txt(<<"Action">>), Txt(<<Blank, "Horror">>)}}
            \cup {[REGION |-> Txt(<<Blank, "RegionB", Blank>>), GENRE |-> g] :
                g \in {Txt(<<"Comedy">>), Txt(<<"Drama", Blank>>)}}
            \cup {[REGION |-> NullCell, GENRE |-> Txt(<<"Comedy">>)],
                  [REGION |-> Txt(<<"RegionA">>), GENRE |-> Txt(<<Blank>>)]}
      [] s = "devices" ->
            {[CUSTOMER_ID |-> c, DEVICE |-> d] :
                c \in {Txt(<<"C1">>), Txt(<<Blank, "C2">>)},
                d \in {Txt(<<"TV">>), Txt(<<"Mobile", Blank>>), Txt(<<"Tablet">>)}}
            \cup {[CUSTOMER_ID |-> Txt(<<"C1">>), DEVICE |-> NullCell],
                  [CUSTOMER_ID |-> Txt(<<"C1">>), DEVICE |-> Txt(<<Blank>>)],
                  [CUSTOMER_ID |-> NullCell, DEVICE |-> Txt(<<"TV">>)]}
      [] s = "screentime" ->
            {[CUSTOMER_ID |-> c, SCREENTIME |-> Num(t)] :
                c \in {Txt(<<"C1">>), Txt(<<Blank, "C2">>), Txt(<<"C3">>)},
                t \in 0..3}
            \cup {[CUSTOMER_ID |-> Txt(<<"C1">>), SCREENTIME |-> NullCell],
                  [CUSTOMER_ID |-> Txt(<<"C1">>), SCREENTIME |-> Txt(<<"n/a">>)],
                  [CUSTOMER_ID |-> NullCell, SCREENTIME |-> Num(1)]}
      [] s = "customers" ->
            {[CUSTOMER_ID |-> c] :
                c \in {Txt(<<"C1">>), Txt(<<"C2">>), Txt(<<Blank, "C2">>),
                       Txt(<<"C3">>), NullCell}}
      [] s = "genre" ->
            {[GENRE |-> g] :
                g \in {Txt(<<"Comedy">>), Txt(<<"Drama", Blank>>), Txt(<<Blank, "Horror">>),
                       Txt(<<Blank>>), NullCell}}
      [] s = "top_shows" ->
            {[TITLE |-> Txt(<<"ShowA">>), GENRE |-> Txt(<<"Comedy">>)],
             [TITLE |-> Txt(<<"ShowB">>), GENRE |-> Txt(<<"Comedy">>)],
             [TITLE |-> Txt(<<Blank, "ShowC">>), GENRE |-> Txt(<<"Drama", Blank>>)],
             [TITLE |-> Txt(<<"ShowA">>), GENRE |-> Txt(<<"Drama">>)],
             [TITLE |-> NullCell, GENRE |-> Txt(<<"Comedy">>)],
             [TITLE |-> Txt(<<"ShowB">>), GENRE |-> Txt(<<Blank>>)]}

\* The rows of a sheet that has only the columns cols.
FilasDe(s, cols) == {[c \in cols |-> f[c]] : f \in FilasPosibles(s)}

(***************************************************************************)
(* Dataframe operations                                                    *)
(***************************************************************************)
\* df[cols]: the rows restricted to the columns cols.
Seleccionar(rows, cols) == [i \in DOMAIN rows |-> [c \in cols |-> rows[i][c]]]

\* df[col] = F(df[col])
MapCol(rows, col, F(_)) == [i \in DOMAIN rows |-> [rows[i] EXCEPT ![col] = F(@)]]

\* DataFrame.dropna(): drops every row holding a null.
DropNa(rows) == SelectSeq(rows, LAMBDA f : \A c \in DOMAIN f : ~f[c].nulo)

\* Mutant of FiltrarVacios: only 'nan' is filtered, '' is kept.
FiltrarSoloNan(rows, col) ==
    SelectSeq(rows, LAMBDA f : f[col] # Txt(<<"nan">>))

\* df[(df[col] != '') & (df[col] != 'nan')]
FiltrarVacios(rows, col) ==
    SelectSeq(rows, LAMBDA f : f[col] # Txt(<<>>) /\ f[col] # Txt(<<"nan">>))

\* Series.astype(str).str.strip()
StrLimpio(c) == StrStrip(AsTypeStr(c))

\* src/dataset_exam_region_genre_relation.py, lines 47-52
LimpiarRegionGenero(rows) ==
    LET sel == Seleccionar(rows, {"REGION", "GENRE"})
        reg == MapCol(sel, "REGION", StrLimpio)
        gen == MapCol(reg, "GENRE", StrLimpio)
        sin == DropNa(gen)
    IN  FiltrarVacios(FiltrarVacios(sin, "REGION"), "GENRE")

\* src/dataset_exam_devices.py, lines 42-45.  astype(str) has already turned
\* every null into 'nan' when dropna runs.
LimpiarDevices(rows) ==
    LET sel == Seleccionar(rows, {"CUSTOMER_ID", "DEVICE"})
        cli == MapCol(sel, "CUSTOMER_ID", StrLimpio)
        dev == MapCol(cli, "DEVICE", StrLimpio)
    IN  DropNa(dev)

\* pd.to_numeric(errors='coerce'): a number stays, anything that does not
\* read as a number becomes NaN (the sheets hold no text that reads as one).
ToNumeric(c) == IF ~c.nulo /\ "numero" \in DOMAIN c THEN c ELSE NullCell

\* src/dataset_exam_screentime_visualizations.py, lines 48-53
LimpiarScreentime(rows) ==
    LET sel == Seleccionar(rows, {"CUSTOMER_ID", "SCREENTIME"})
        cli == MapCol(sel, "CUSTOMER_ID", StrLimpio)
        num == MapCol(cli, "SCREENTIME", ToNumeric)
    IN  DropNa(num)

\* Mutant of LimpiarCustomers: the ids are stripped of blanks.
LimpiarCustomersStrip(rows) ==
    MapCol(DropNa(Seleccionar(rows, {"CUSTOMER_ID"})), "CUSTOMER_ID", StrLimpio)

\* src/dataset_exam_customers.py, line 39: df['CUSTOMER_ID'].dropna().astype(str)
LimpiarCustomers(rows) ==
    MapCol(DropNa(Seleccionar(rows, {"CUSTOMER_ID"})), "CUSTOMER_ID", AsTypeStr)

\* src/dataset_exam_genre.py, line 44: df['GENRE'].dropna().astype(str).str.strip()
LimpiarGenre(rows) ==
    MapCol(DropNa(Seleccionar(rows, {"GENRE"})), "GENRE", StrLimpio)

\* src/dataset_exam_top_shows.py, lines 47-52
LimpiarShows(rows) ==
    LET sel == Seleccionar(rows, {"TITLE", "GENRE"})
        tit == MapCol(sel, "TITLE", StrLimpio)
        gen == MapCol(tit, "GENRE", StrLimpio)
        sin == DropNa(gen)
    IN  FiltrarVacios(FiltrarVacios(sin, "TITLE"), "GENRE")

Limpiar(s, rows) ==
    CASE s = "region_genre" -> LimpiarRegionGenero(rows)
      [] s = "devices"      -> LimpiarDevices(rows)
      [] s = "screentime"   -> LimpiarScreentime(rows)
      [] s = "customers"    -> LimpiarCustomers(rows)
      [] s = "genre"        -> LimpiarGenre(rows)
      [] s = "top_shows"    -> LimpiarShows(rows)

\* Series.nunique() of a column / its distinct values
Valores(rows, col) == {rows[i][col].texto : i \in DOMAIN rows}

(***************************************************************************)
(* pd.crosstab(df[a], df[b]): index and columns are the distinct labels in *)
(* sorted order, each cell the number of rows with that pair, 0 where the  *)
(* pair does not occur.                                                    *)
(***************************************************************************)
\* Mutant of Contar: 1 when the pair occurs, however often.
ContarPresencia(rows, a, b, r, g) ==
    IF \E i \in DOMAIN rows : rows[i][a].texto = r /\ rows[i][b].texto = g THEN 1 ELSE 0

\* Mutant of Contar: counts the rows of r whatever their b.
ContarSoloIndice(rows, a, b, r, g) ==
    Cardinality({i \in DOMAIN rows : rows[i][a].texto = r})

RECURSIVE Contar(_, _, _, _, _)
Contar(rows, a, b, r, g) ==
    IF rows = <<>> THEN 0
    ELSE (IF Head(rows)[a].texto = r /\ Head(rows)[b].texto = g THEN 1 ELSE 0)
         + Contar(Tail(rows), a, b, r, g)

Crosstab(rows, a, b) ==
    LET idx  == SortedLabels(Valores(rows, a))
        cols == SortedLabels(Valores(rows, b))
    IN  [index   |-> idx,
         columns |-> cols,
         valores |-> [p \in Range(idx) \X Range(cols) |->
                         Contar(rows, a, b, p[1], p[2])]]

TablaVacia == [index |-> <<>>, columns |-> <<>>, valores |-> <<>>]

\* tabla.loc[r]: the row of region r as a sequence in column order.
Fila(t, r) == [j \in 1..Len(t.columns) |-> t.valores[<<r, t.columns[j]>>]]

\* tabla.sum(axis=1) at r
TotalFila(t, r) == SumSeq(Fila(t, r))

(***************************************************************************)
(* Rounding to 2 decimals of 100 * n / d, as a number of hundredths.       *)
(* numpy rounds half to even.                                              *)
(***************************************************************************)
\* Mutant of RoundHalfEven: truncates.
RoundDown(n, d) == n \div d

RoundHalfEven(n, d) ==
    LET q == n \div d
        r == n % d
    IN  IF 2 * r < d THEN q
        ELSE IF 2 * r > d THEN q + 1
        ELSE IF q % 2 = 0 THEN q ELSE q + 1

Centesimas == 100

\* round(count / total * 100, 2), in hundredths of a percent
Porcentaje(count, total) == RoundHalfEven(count * 100 * Centesimas, total)

\* Mutant of TablaPorcentajes: shares of the whole table, not of the row.
TablaPorcentajesGlobal(t) ==
    [t EXCEPT !.valores =
        [p \in DOMAIN t.valores |->
            Porcentaje(t.valores[p],
                       SumSeq([k \in 1..Len(t.index) |-> TotalFila(t, t.index[k])]))]]

\* tabla_contingencia.div(tabla_contingencia.sum(axis=1), axis=0) * 100, .round(2)
TablaPorcentajes(t) ==
    [t EXCEPT !.valores =
        [p \in DOMAIN t.valores |-> Porcentaje(t.valores[p], TotalFila(t, p[1]))]]

(***************************************************************************)
(* Series.nlargest(n) over a row of the contingency table (labels: the     *)
(* column labels, vals: the counts, both in column order).                 *)
(*                                                                         *)
(* With n < len the library selects with a stable sort: values descending, *)
(* equal values in column order (keep='first').  With n >= len it returns  *)
(* sort_values(ascending=False), whose default sort is not stable: equal   *)
(* values may come out in any order, so every descending permutation is a  *)
(* possible result.  PosiblesNlargest is the set of results.               *)
(***************************************************************************)
TopN == 3

PrimerMax(vals) ==
    CHOOSE i \in 1..Len(vals) :
        /\ vals[i] = MaxSeq(vals)
        /\ \A j \in 1..(i - 1) : vals[j] # vals[i]

Quitar(s, i) == SubSeq(s, 1, i - 1) \o SubSeq(s, i + 1, Len(s))

\* Mutant of NlargestEstable: keep='last', of equal values the last column first.
RECURSIVE NlargestUltimo(_, _, _)
NlargestUltimo(labels, vals, n) ==
    IF n = 0 \/ labels = <<>> THEN <<>>
    ELSE LET i == CHOOSE k \in 1..Len(vals) :
                    /\ vals[k] = MaxSeq(vals)
                    /\ \A j \in (k + 1)..Len(vals) : vals[j] # vals[k]
         IN  <<labels[i]>> \o NlargestUltimo(Quitar(labels, i), Quitar(vals, i), n - 1)

RECURSIVE NlargestEstable(_, _, _)
NlargestEstable(labels, vals, n) ==
    IF n = 0 \/ labels = <<>> THEN <<>>
    ELSE LET i == PrimerMax(vals)
         IN  <<labels[i]>> \o NlargestEstable(Quitar(labels, i), Quitar(vals, i), n - 1)

\* Every arrangement of labels with vals descending: any label holding the
\* maximum may come first.
RECURSIVE OrdenadosDesc(_, _)
OrdenadosDesc(labels, vals) ==
    IF labels = <<>> THEN {<<>>}
    ELSE UNION {{<<labels[i]>> \o resto :
                    resto \in OrdenadosDesc(Quitar(labels, i), Quitar(vals, i))} :
                i \in {j \in 1..Len(vals) : vals[j] = MaxSeq(vals)}}

PosiblesNlargest(labels, vals, n) ==
    IF n >= Len(labels) THEN OrdenadosDesc(labels, vals)
    ELSE {NlargestEstable(labels, vals, n)}

\* The rows of df_top for region r, its genres ranked as in orden.
FilasTop(t, r, orden) ==
    [i \in 1..Len(orden) |->
        [REGION          |-> r,
         RANKING         |-> i,
         GENERO          |-> orden[i],
         VISUALIZACIONES |-> t.valores[<<r, orden[i]>>],
         PORCENTAJE      |-> Porcentaje(t.valores[<<r, orden[i]>>], TotalFila(t, r)),
         TOTAL_REGION    |-> TotalFila(t, r)]]

\* top_generos_por_region after the loop over tabla_contingencia.index
\* (lines 77-93): every list the loop can build, one nlargest result per region.
RECURSIVE TopGeneros(_, _)
TopGeneros(t, regiones) ==
    IF regiones = <<>> THEN {<<>>}
    ELSE {FilasTop(t, Head(regiones), orden) \o resto :
            orden \in PosiblesNlargest(t.columns, Fila(t, Head(regiones)), TopN),
            resto \in TopGeneros(t, Tail(regiones))}

(***************************************************************************)
(* Diversity index and tier                                                *)
(***************************************************************************)
\* Mutant of calcular_hhi: the square of the sum instead of the sum of squares.
hhi_cuadrado_de_suma(porcentajes) == SumSeq(porcentajes) * SumSeq(porcentajes)

\* Mutant of calcular_hhi: the row total is squared in as one more share.
hhi_con_total(porcentajes) ==
    SumSeq([i \in 1..Len(porcentajes) |-> porcentajes[i] * porcentajes[i]])
        + SumSeq(porcentajes) * SumSeq(porcentajes)

\* sum([p ** 2 for p in porcentajes]); p in hundredths, the sum in 1/10000
calcular_hhi(porcentajes) ==
    SumSeq([i \in 1..Len(porcentajes) |-> porcentajes[i] * porcentajes[i]])

bins_diversidad == <<0, 1500, 2500, 10000>>

\* Mutant of labels_diversidad: the first two labels exchanged.
labels_intercambiadas == <<"Media Diversidad", "Alta Diversidad", "Baja Diversidad">>

labels_diversidad == <<"Alta Diversidad", "Media Diversidad", "Baja Diversidad">>

\* Mutant of PdCut: right=False, label j when bins[j] <= x < bins[j+1].
PdCutIzquierda(x, bins, labels, escala) ==
    IF \E j \in 1..Len(labels) : bins[j] * escala <= x /\ x < bins[j + 1] * escala
    THEN labels[CHOOSE j \in 1..Len(labels) :
                    bins[j] * escala <= x /\ x < bins[j + 1] * escala]
    ELSE "NaN"

\* pd.cut(x, bins, labels) with the default right=True: label j when
\* bins[j] < x <= bins[j+1], NaN when x is in no interval.  x is in units of
\* 1/escala.
PdCut(x, bins, labels, escala) ==
    IF \E j \in 1..Len(labels) : bins[j] * escala < x /\ x <= bins[j + 1] * escala
    THEN labels[CHOOSE j \in 1..Len(labels) :
                    bins[j] * escala < x /\ x <= bins[j + 1] * escala]
    ELSE "NaN"

NivelDiversidad(indice) ==
    PdCut(indice, bins_diversidad, labels_diversidad, Centesimas * Centesimas)

\* DataFrame.idxmax(axis=1) at r: the first column holding the row's maximum.
IdxMax(t, r) == t.columns[PrimerMax(Fila(t, r))]

\* stats_region, lines 98-118
StatsRegion(t, tp) ==
    [k \in 1..Len(t.index) |->
        LET r == t.index[k]
            indice == calcular_hhi(Fila(tp, r))
        IN  [REGION                |-> r,
             TOTAL_VISUALIZACIONES |-> TotalFila(t, r),
             GENEROS_UNICOS        |-> Cardinality({j \in 1..Len(t.columns) : Fila(t, r)[j] > 0}),
             GENERO_MAS_POPULAR    |-> IdxMax(t, r),
             VISTAS_GENERO_TOP     |-> MaxSeq(Fila(t, r)),
             PORCENTAJE_GENERO_TOP |-> Porcentaje(MaxSeq(Fila(t, r)), SumSeq(Fila(t, r))),
             INDICE_DIVERSIDAD     |-> indice,
             NIVEL_DIVERSIDAD      |-> NivelDiversidad(indice)]]

(***************************************************************************)
(* The run                                                                 *)
(***************************************************************************)
Msg(tag, arg) == <<tag, arg>>

DfNinguno == [columns |-> {}, filas |-> <<>>]

\* The workbooks a run may be given: no file; a file with no readable sheet;
\* a sheet named 'Dataset' with up to MaxRows rows (MaxRowsDevices for the
\* devices script) or, failing that, a second sheet with up to MaxRowsSegunda
\* rows, holding any of the required columns.
MaxFilas(s, h) ==
    IF h = "segunda" THEN MaxRowsSegunda
    ELSE IF s = "devices" THEN MaxRowsDevices
    ELSE IF s = "screentime" THEN MaxRowsScreentime
    ELSE IF s = "customers" THEN MaxRowsCustomers
    ELSE IF s = "genre" THEN MaxRowsGenre
    ELSE IF s = "top_shows" THEN MaxRowsShows ELSE MaxRows

Entorno(s) ==
    \/ /\ archivo_existe \in BOOLEAN
       /\ hoja = "ninguna"
       /\ columnas = {}
       /\ filas = <<>>
    \/ /\ archivo_existe = TRUE
       /\ \E h \in {"Dataset", "segunda"} :
            /\ hoja = h
            /\ columnas \in SUBSET Range(columnas_requeridas(s))
            /\ \E k \in 0..MaxFilas(s, h) :
                 filas \in [1..k -> FilasDe(s, columnas)]

EstadisticasNinguna ==
    [total_clientes |-> 0, clientes_multiples |-> 0, porcentaje_multiples |-> 0,
     clientes_un_dispositivo |-> 0, clientes_mas_de_dos |-> 0]

\* Default of the parameter top_n (dataset_exam_top_shows.py, line 10).
top_n_defecto == 20

\* The state of a run that has not started: nothing computed, printed or written.
InicioTablas ==
    /\ pc = "load"
    /\ df = DfNinguno
    /\ df_clean = <<>>
    /\ total_registros = 0
    /\ tabla_contingencia = TablaVacia
    /\ tabla_porcentajes = TablaVacia
    /\ df_top = <<>>
    /\ stats_region = <<>>
    /\ df_analisis = <<>>
    /\ estadisticas = EstadisticasNinguna
    /\ dispositivo_counts = <<>>
    /\ df_multiples = <<>>
    /\ df_dispositivos = <<>>
    /\ analisis_completo = <<>>
    /\ clientes_valiosos = <<>>
    /\ contador = <<>>
    /\ resultados = <<>>
    /\ conteo_generos = <<>>
    /\ reporte_df = <<>>
    /\ conteo_shows = <<>>
    /\ top_show_por_genero = <<>>
    /\ datos_grafico = <<>>
    /\ consola = <<>>
    /\ archivo_salida = "ausente"
    /\ lecturas = 0
    /\ escrituras = 0
    /\ error = "ninguno"
    /\ resultado = "pendiente"

\* A run started without a top_n argument.
Inicio == InicioTablas /\ top_n = top_n_defecto

InitDe(s) ==
    /\ script = s
    /\ Entorno(s)
    /\ Inicio

entorno == <<script, archivo_existe, hoja, columnas, filas, top_n>>

tablas_devices ==
    <<df_analisis, estadisticas, dispositivo_counts, df_multiples, df_dispositivos>>

tablas_screentime == <<analisis_completo, clientes_valiosos>>

tablas_customers == <<contador, resultados>>

tablas_genre == <<conteo_generos, reporte_df>>

tablas_shows == <<conteo_shows, top_show_por_genero>>

\* The tables of the customers, genre and top-shows scripts.
tablas_restantes == <<tablas_customers, tablas_genre, tablas_shows, datos_grafico>>

tablas == <<total_registros, tabla_contingencia, tabla_porcentajes, df_top, stats_region,
            tablas_devices, tablas_screentime, tablas_restantes>>

\* A return None after printing mensajes: the run is over.
Termina(mensajes, err) ==
    /\ consola' = consola \o mensajes
    /\ error' = err
    /\ resultado' = "None"
    /\ pc' = "done"

\* An exception caught by the handler at the end of the function.
ErrorInesperado == Termina(<<Msg("error_inesperado", "")>>, "inesperado")

\* Mutant of LecturasDe: the read of the sheet 'Dataset' is tried twice.
LecturasConReintento(existe, h) ==
    IF ~existe THEN 0 ELSE IF h = "Dataset" THEN 1 ELSE 3

\* How many times lines 27-36 read the workbook: not at all when the file is
\* missing, once when the sheet 'Dataset' is read, and a second time, for the
\* sheet at index 1, when that read fails.
LecturasDe(existe, h) ==
    IF ~existe THEN 0 ELSE IF h = "Dataset" THEN 1 ELSE 2

\* Mutant of Load: no second read when the sheet 'Dataset' cannot be read.
LoadSinRespaldo ==
    /\ pc = "load"
    /\ IF ~archivo_existe
       THEN /\ Termina(<<Msg("error_archivo_no_existe", "")>>, "archivo_no_existe")
            /\ UNCHANGED df
       ELSE IF hoja = "Dataset"
       THEN /\ df' = [columns |-> columnas, filas |-> filas]
            /\ pc' = "validate"
            /\ UNCHANGED <<consola, error, resultado>>
       ELSE /\ Termina(<<Msg("error_lectura", "")>>, "lectura")
            /\ UNCHANGED df
    /\ lecturas' = lecturas + LecturasDe(archivo_existe, hoja)
    /\ UNCHANGED <<entorno, escrituras, df_clean, tablas, archivo_salida>>

\* Lines 20-36 of every script: the file test and the read of the sheet.
Load ==
    /\ pc = "load"
    /\ IF ~archivo_existe
       THEN /\ Termina(<<Msg("error_archivo_no_existe", "")>>, "archivo_no_existe")
            /\ UNCHANGED df
       ELSE IF hoja = "Dataset"
       THEN /\ df' = [columns |-> columnas, filas |-> filas]
            /\ pc' = "validate"
            /\ UNCHANGED <<consola, error, resultado>>
       ELSE IF hoja = "segunda"
       THEN /\ df' = [columns |-> columnas, filas |-> filas]
            /\ consola' = Append(consola, Msg("aviso_segunda_hoja", ""))
            /\ pc' = "validate"
            /\ UNCHANGED <<error, resultado>>
       ELSE /\ Termina(<<Msg("error_lectura", "")>>, "lectura")
            /\ UNCHANGED df
    /\ lecturas' = lecturas + LecturasDe(archivo_existe, hoja)
    /\ UNCHANGED <<entorno, escrituras, df_clean, tablas, archivo_salida>>

\* The required columns that the sheet lacks, in the order they are tested.
Faltantes(s, cols) == SelectSeq(columnas_requeridas(s), LAMBDA c : c \notin cols)

\* Mutant of ValidateColumns: the error is printed but the return is missing.
ValidateColumnsSinReturn ==
    /\ pc = "validate"
    /\ IF Faltantes(script, df.columns) # <<>>
       THEN consola' = consola \o <<Msg("error_columna", Head(Faltantes(script, df.columns))),
                                    Msg("columnas_disponibles", "")>>
       ELSE UNCHANGED consola
    /\ pc' = "clean"
    /\ UNCHANGED <<entorno, lecturas, escrituras, df, df_clean, tablas, archivo_salida, error, resultado>>

\* Lines 38-44: the first missing column ends the run.
ValidateColumns ==
    /\ pc = "validate"
    /\ IF Faltantes(script, df.columns) # <<>>
       THEN Termina(<<Msg("error_columna", Head(Faltantes(script, df.columns))),
                      Msg("columnas_disponibles", "")>>, "columna_faltante")
       ELSE /\ pc' = "clean"
            /\ UNCHANGED <<consola, error, resultado>>
    /\ UNCHANGED <<entorno, lecturas, escrituras, df, df_clean, tablas, archivo_salida>>

\* Lines 46-52.  Selecting a column the frame lacks raises KeyError, which the
\* handler at the end of the function catches.
Clean ==
    /\ pc = "clean"
    /\ IF Range(columnas_requeridas(script)) \subseteq df.columns
       THEN /\ df_clean' = Limpiar(script, df.filas)
            /\ pc' = "aggregate"
            /\ UNCHANGED <<consola, error, resultado>>
       ELSE /\ ErrorInesperado
            /\ UNCHANGED df_clean
    /\ UNCHANGED <<entorno, lecturas, escrituras, df, tablas, archivo_salida>>

\* Lines 54-118 of dataset_exam_region_genre_relation.py.  On an empty
\* df_clean every table is empty; whether idxmax of the empty table (line
\* 102) raises depends on the library version, so both are possible.
AggregateRegionGenre ==
    /\ pc = "aggregate"
    /\ script = "region_genre"
    /\ total_registros' = Len(df_clean)
    /\ tabla_contingencia' = Crosstab(df_clean, "REGION", "GENRE")
    /\ tabla_porcentajes' = TablaPorcentajes(tabla_contingencia')
    /\ df_top' \in TopGeneros(tabla_contingencia', tabla_contingencia'.index)
    /\ \/ /\ stats_region' = StatsRegion(tabla_contingencia', tabla_porcentajes')
          /\ consola' = Append(consola, Msg("cabecera", ""))
          /\ pc' = "report"
          /\ UNCHANGED <<error, resultado>>
       \/ /\ df_clean = <<>>
          /\ UNCHANGED stats_region
          /\ Termina(<<Msg("cabecera", ""), Msg("error_inesperado", "")>>, "inesperado")
    /\ UNCHANGED <<entorno, lecturas, escrituras, df, df_clean, tablas_devices,
                   tablas_screentime, tablas_restantes, archivo_salida>>

\* Mutant of ReportRegionGenre: the output file is begun while reporting.
ReportRegionGenreEscribe ==
    /\ pc = "report"
    /\ script = "region_genre"
    /\ IF df_top = <<>>
       THEN ErrorInesperado /\ UNCHANGED archivo_salida
       ELSE /\ consola' = consola \o <<Msg("top1", ""), Msg("estadisticas", "")>>
            /\ archivo_salida' = "parcial"
            /\ pc' = "export"
            /\ UNCHANGED <<error, resultado>>
    /\ UNCHANGED <<entorno, lecturas, escrituras, df, df_clean, tablas>>

\* Lines 120-135.  df_top built from no rows has no RANKING column: line 123
\* raises KeyError.
ReportRegionGenre ==
    /\ pc = "report"
    /\ script = "region_genre"
    /\ IF df_top = <<>>
       THEN ErrorInesperado
       ELSE /\ consola' = consola \o <<Msg("top1", ""), Msg("estadisticas", "")>>
            /\ pc' = "export"
            /\ UNCHANGED <<error, resultado>>
    /\ UNCHANGED <<entorno, lecturas, escrituras, df, df_clean, tablas, archivo_salida>>

\* Lines 137-250.  The writer creates the file when it is opened and saves
\* the workbook when the with block is left, by an exception too.
ExportRegionGenre ==
    /\ pc = "export"
    /\ script = "region_genre"
    /\ \/ /\ archivo_salida' = "completo"
          /\ escrituras' = escrituras + 1
          /\ consola' = consola \o <<Msg("archivo_generado", ""), Msg("relacion", "")>>
          /\ resultado' = "dict"
          /\ pc' = "done"
          /\ UNCHANGED error
       \/ /\ UNCHANGED <<archivo_salida, escrituras>>   \* opening the writer fails
          /\ ErrorInesperado
       \/ /\ archivo_salida' = "parcial"    \* a step inside the with block fails
          /\ escrituras' = escrituras + 1
          /\ ErrorInesperado
    /\ UNCHANGED <<entorno, lecturas, df, df_clean, tablas>>

(***************************************************************************)
(* src/dataset_exam_devices.py                                             *)
(***************************************************************************)
\* The distinct members of s in the order they first appear (the key order
\* of a dict filled while iterating).
RECURSIVE PrimeraAparicion(_)
PrimeraAparicion(s) ==
    IF s = <<>> THEN <<>>
    ELSE <<Head(s)>> \o PrimeraAparicion(SelectSeq(Tail(s), LAMBDA x : x # Head(s)))

\* ', '.join(labels)
RECURSIVE JoinComa(_)
JoinComa(labels) ==
    IF labels = <<>> THEN <<>>
    ELSE IF Len(labels) = 1 THEN Head(labels)
    ELSE Head(labels) \o <<", ">> \o JoinComa(Tail(labels))

\* clientes_dispositivos[c]: the set of devices of customer c (lines 52-57)
clientes_dispositivos(rows, c) ==
    {rows[i]["DEVICE"].texto :
        i \in {j \in DOMAIN rows : rows[j]["CUSTOMER_ID"].texto = c}}

\* clientes_registros[c]: the devices of the records of customer c, in order
clientes_registros(rows, c) ==
    LET suyos == SelectSeq(rows, LAMBDA f : f["CUSTOMER_ID"].texto = c)
    IN  [i \in DOMAIN suyos |-> suyos[i]["DEVICE"].texto]

\* Mutant of FilaAnalisis: the devices are counted per record, not per
\* distinct device.
FilaAnalisisCuentaRegistros(rows, c) ==
    LET total == Len(clientes_registros(rows, c))
    IN  [CUSTOMER_ID                |-> c,
         CANTIDAD_DISPOSITIVOS      |-> total,
         DISPOSITIVOS_UTILIZADOS    |-> JoinComa(SortedLabels(clientes_dispositivos(rows, c))),
         USA_MULTIPLES_DISPOSITIVOS |-> IF total > 1 THEN "Si" ELSE "No",
         TOTAL_VISUALIZACIONES      |-> total,
         DISP_UNICOS_TOTAL          |-> <<total, "/", total>>]

\* One entry of analisis_data (lines 62-74).  'Sí' is written "Si", the
\* column 'DISP_UNICOS/TOTAL' is the field DISP_UNICOS_TOTAL.
FilaAnalisis(rows, c) ==
    LET cantidad_dispositivos == Cardinality(clientes_dispositivos(rows, c))
        total == Len(clientes_registros(rows, c))
    IN  [CUSTOMER_ID                |-> c,
         CANTIDAD_DISPOSITIVOS      |-> cantidad_dispositivos,
         DISPOSITIVOS_UTILIZADOS    |-> JoinComa(SortedLabels(clientes_dispositivos(rows, c))),
         USA_MULTIPLES_DISPOSITIVOS |-> IF cantidad_dispositivos > 1 THEN "Si" ELSE "No",
         TOTAL_VISUALIZACIONES      |-> total,
         DISP_UNICOS_TOTAL          |-> <<cantidad_dispositivos, "/", total>>]

\* analisis_data, one entry per customer in the order the customers are met
analisis_data(rows) ==
    LET claves == PrimeraAparicion([i \in DOMAIN rows |-> rows[i]["CUSTOMER_ID"].texto])
    IN  [k \in DOMAIN claves |-> FilaAnalisis(rows, claves[k])]

\* df.sort_values('CANTIDAD_DISPOSITIVOS', ascending=False): the default sort
\* is not stable, rows with equal values may come out in any order.
OrdenarPorCantidad(rows) ==
    OrdenadosDesc(rows, [i \in DOMAIN rows |-> rows[i].CANTIDAD_DISPOSITIVOS])

Decimas == 10

\* Mutant of Estadisticas: clientes_multiples counts the customers with more
\* than two devices.
EstadisticasDesdeTres(analisis) ==
    LET total_clientes == Len(analisis)
        cuantos(P(_)) == Len(SelectSeq(analisis, P))
        multiples == cuantos(LAMBDA f : f.CANTIDAD_DISPOSITIVOS > 2)
    IN  [total_clientes          |-> total_clientes,
         clientes_multiples      |-> multiples,
         porcentaje_multiples    |->
            IF total_clientes > 0
            THEN RoundHalfEven(multiples * 100 * Decimas, total_clientes) ELSE 0,
         clientes_un_dispositivo |-> cuantos(LAMBDA f : f.CANTIDAD_DISPOSITIVOS = 1),
         clientes_mas_de_dos     |-> cuantos(LAMBDA f : f.CANTIDAD_DISPOSITIVOS > 2)]

\* Lines 83-88.  porcentaje_multiples is held as it is printed, rounded to one
\* decimal, in tenths of a percent.
Estadisticas(analisis) ==
    LET total_clientes == Len(analisis)
        cuantos(P(_)) == Len(SelectSeq(analisis, P))
        multiples == cuantos(LAMBDA f : f.CANTIDAD_DISPOSITIVOS > 1)
    IN  [total_clientes          |-> total_clientes,
         clientes_multiples      |-> multiples,
         porcentaje_multiples    |->
            IF total_clientes > 0
            THEN RoundHalfEven(multiples * 100 * Decimas, total_clientes) ELSE 0,
         clientes_un_dispositivo |-> cuantos(LAMBDA f : f.CANTIDAD_DISPOSITIVOS = 1),
         clientes_mas_de_dos     |-> cuantos(LAMBDA f : f.CANTIDAD_DISPOSITIVOS > 2)]

\* pd.Series(todos_dispositivos).value_counts() (lines 91-92): for each device
\* the number of customers that use it, most used first; the order of devices
\* used by equally many customers is not fixed.
ValueCountsDispositivos(rows) ==
    LET clientes == {rows[i]["CUSTOMER_ID"].texto : i \in DOMAIN rows}
        devices  == SortedLabels({rows[i]["DEVICE"].texto : i \in DOMAIN rows})
        cuenta   == [k \in DOMAIN devices |->
                        Cardinality({c \in clientes :
                                        devices[k] \in clientes_dispositivos(rows, c)})]
        filas_vc == [k \in DOMAIN devices |-> [DISPOSITIVO |-> devices[k],
                                               CLIENTES_QUE_USAN |-> cuenta[k]]]
    IN  OrdenadosDesc(filas_vc, cuenta)

\* Lines 47-92.  No record, no column: sort_values (line 80) raises KeyError.
AggregateDevices ==
    /\ pc = "aggregate"
    /\ script = "devices"
    /\ IF df_clean = <<>>
       THEN /\ ErrorInesperado
            /\ UNCHANGED <<df_analisis, estadisticas, dispositivo_counts>>
       ELSE /\ df_analisis' \in OrdenarPorCantidad(analisis_data(df_clean))
            /\ estadisticas' = Estadisticas(df_analisis')
            /\ dispositivo_counts' \in ValueCountsDispositivos(df_clean)
            /\ pc' = "report"
            /\ UNCHANGED <<consola, error, resultado>>
    /\ UNCHANGED <<entorno, lecturas, escrituras, df, df_clean, total_registros, tabla_contingencia,
                   tabla_porcentajes, df_top, stats_region, df_multiples,
                   df_dispositivos, tablas_screentime, tablas_restantes, archivo_salida>>

\* Lines 94-129: the console report.
ReportDevices ==
    /\ pc = "report"
    /\ script = "devices"
    /\ consola' = consola
          \o <<Msg("cabecera", ""), Msg("total_clientes", estadisticas.total_clientes)>>
          \o (IF estadisticas.clientes_multiples > 0
              THEN <<Msg("top10", SubSeq(df_analisis, 1, Min(10, Len(df_analisis))))>>
              ELSE <<>>)
          \o <<Msg("distribucion", SubSeq(dispositivo_counts, 1,
                                          Min(10, Len(dispositivo_counts))))>>
          \o <<Msg("respuesta", IF estadisticas.clientes_multiples > 0 THEN "SI" ELSE "NO")>>
    /\ pc' = "export"
    /\ UNCHANGED <<entorno, lecturas, escrituras, df, df_clean, tablas, archivo_salida, error, resultado>>

\* Sheet 'Clientes Múltiples' (lines 159-160)
ClientesMultiples(analisis) ==
    OrdenarPorCantidad(SelectSeq(analisis, LAMBDA f : f.CANTIDAD_DISPOSITIVOS > 1))

\* Sheet 'Dispositivos' (lines 164-168), PORCENTAJE in hundredths of a percent
HojaDispositivos(counts, total_clientes) ==
    [k \in DOMAIN counts |->
        [DISPOSITIVO       |-> counts[k].DISPOSITIVO,
         CLIENTES_QUE_USAN |-> counts[k].CLIENTES_QUE_USAN,
         PORCENTAJE        |-> Porcentaje(counts[k].CLIENTES_QUE_USAN, total_clientes)]]

\* Lines 131-193.  The writer creates the file when it is opened and saves
\* the workbook when the with block is left, by an exception too.
ExportDevices ==
    /\ pc = "export"
    /\ script = "devices"
    /\ \/ /\ archivo_salida' = "completo"
          /\ escrituras' = escrituras + 1
          /\ df_multiples' \in ClientesMultiples(df_analisis)
          /\ df_dispositivos' = HojaDispositivos(dispositivo_counts, estadisticas.total_clientes)
          /\ consola' = Append(consola, Msg("archivo_generado", ""))
          /\ resultado' = "df_analisis"
          /\ pc' = "done"
          /\ UNCHANGED error
       \/ /\ UNCHANGED <<archivo_salida, escrituras, df_multiples, df_dispositivos>>
          /\ ErrorInesperado                \* opening the writer fails
       \/ /\ archivo_salida' = "parcial"    \* a step inside the with block fails
          /\ escrituras' = escrituras + 1
          /\ \/ UNCHANGED <<df_multiples, df_dispositivos>>
             \/ /\ df_multiples' \in ClientesMultiples(df_analisis)
                /\ UNCHANGED df_dispositivos
             \/ /\ df_multiples' \in ClientesMultiples(df_analisis)
                /\ df_dispositivos' =
                     HojaDispositivos(dispositivo_counts, estadisticas.total_clientes)
          /\ ErrorInesperado
    /\ UNCHANGED <<entorno, lecturas, df, df_clean, total_registros, tabla_contingencia,
                   tabla_porcentajes, df_top, stats_region, df_analisis,
                   estadisticas, dispositivo_counts, tablas_screentime,
                   tablas_restantes>>

(***************************************************************************)
(* src/dataset_exam_screentime_visualizations.py                           *)
(***************************************************************************)
\* float('inf') as a bin edge: above every number the model's sheets produce.
Infinito == 1000000

bins_frecuencia == <<0, 1, 3, 10, 50, Infinito>>

labels_frecuencia ==
    <<"Ocasional (1)", "Frecuente (2-3)", "Muy Frecuente (4-10)",
      "Super Usuario (11-50)", "Power User (50+)">>

labels_screentime == <<"Bajo Consumo", "Medio Consumo", "Alto Consumo">>

\* pd.cut(x, bins, labels, right=False): label j when bins[j] <= x < bins[j+1],
\* NaN when x is in no interval.
PdCutRightFalse(x, bins, labels, escala) ==
    IF \E j \in 1..Len(labels) : bins[j] * escala <= x /\ x < bins[j + 1] * escala
    THEN labels[CHOOSE j \in 1..Len(labels) :
                    bins[j] * escala <= x /\ x < bins[j + 1] * escala]
    ELSE "NaN"

\* pd.cut raises ValueError unless its bin edges increase strictly.
BinsValidos(bins) == \A j \in 1..(Len(bins) - 1) : bins[j] < bins[j + 1]

\* The numbers of s in non-decreasing order.
RECURSIVE SortAsc(_)
SortAsc(s) ==
    IF s = <<>> THEN <<>>
    ELSE LET i == CHOOSE k \in 1..Len(s) : \A j \in 1..Len(s) : s[k] <= s[j]
         IN  <<s[i]>> \o SortAsc(Quitar(s, i))

\* Series.quantile(q / 100) with linear interpolation, times 100: with the
\* values sorted, position (n - 1) * q / 100 counted from 0.
Cuantil(vals, q) ==
    LET orden == SortAsc(vals)
        pos   == (Len(vals) - 1) * q
        f     == pos \div 100
        r     == pos % 100
    IN  IF r = 0 THEN 100 * orden[f + 1]
        ELSE 100 * orden[f + 1] + r * (orden[f + 2] - orden[f + 1])

\* bins_screentime (lines 95-96), in hundredths
bins_screentime(totales) == <<0, Cuantil(totales, 33), Cuantil(totales, 66), Infinito>>

\* The SCREENTIME values of the records of customer c, in order.
TiemposDe(rows, c) ==
    LET suyos == SelectSeq(rows, LAMBDA f : f["CUSTOMER_ID"].texto = c)
    IN  [i \in DOMAIN suyos |-> suyos[i]["SCREENTIME"].numero]

\* One row of analisis_completo before the screentime classification (lines
\* 67-92).  Quotients are kept as pairs <<numerator, denominator>>;
\* SCREENTIME_DESVEST holds the variance, the square of the column's value,
\* <<0, 0>> (NaN) for a single record.
FilaCliente(rows, c) ==
    LET t == TiemposDe(rows, c)
        n == Len(t)
        total == SumSeq(t)
        cuadrados == SumSeq([i \in DOMAIN t |-> t[i] * t[i]])
    IN  [CUSTOMER_ID                  |-> c,
         FRECUENCIA_VISUALIZACIONES   |-> n,
         SCREENTIME_TOTAL             |-> total,
         SCREENTIME_PROMEDIO          |-> <<total, n>>,
         SCREENTIME_DESVEST           |-> <<n * cuadrados - total * total, n * (n - 1)>>,
         FRECUENCIA                   |-> n,
         SCREENTIME_POR_VISUALIZACION |-> <<total, n>>,
         CATEGORIA_FRECUENCIA         |->
            PdCutRightFalse(n, bins_frecuencia, labels_frecuencia, 1),
         CATEGORIA_SCREENTIME         |-> "ausente"]

\* The orders in which value_counts (line 67) may list the customers: most
\* records first, customers with equally many records in any order.
OrdenesDeClientes(rows) ==
    LET claves == PrimeraAparicion([i \in DOMAIN rows |-> rows[i]["CUSTOMER_ID"].texto])
    IN  OrdenadosDesc(claves, [k \in DOMAIN claves |-> Len(TiemposDe(rows, claves[k]))])

\* Lines 99-101: the screentime category of every row, the total in hundredths.
ClasificarScreentime(analisis, bins) ==
    [i \in DOMAIN analisis |->
        [analisis[i] EXCEPT !.CATEGORIA_SCREENTIME =
            PdCut(100 * analisis[i].SCREENTIME_TOTAL, bins, labels_screentime, 1)]]

\* value_counts of a categorical column: the number of rows of each label.
DistCategorias(analisis, campo, labels) ==
    [l \in Range(labels) |-> Cardinality({i \in DOMAIN analisis : analisis[i][campo] = l})]

\* Lines 55-119.  With no record line 63 divides by zero, after the header
\* lines before it are printed; with bin edges that do not increase strictly
\* pd.cut (line 99) raises ValueError, analisis_completo being left without
\* its CATEGORIA_SCREENTIME column.
AggregateScreentime ==
    /\ pc = "aggregate"
    /\ script = "screentime"
    /\ total_registros' = Len(df_clean)
    /\ IF df_clean = <<>>
       THEN /\ Termina(<<Msg("cabecera", ""), Msg("error_inesperado", "")>>, "inesperado")
            /\ UNCHANGED analisis_completo
       ELSE \E orden \in OrdenesDeClientes(df_clean) :
              LET base == [k \in DOMAIN orden |-> FilaCliente(df_clean, orden[k])]
                  bins == bins_screentime([k \in DOMAIN base |-> base[k].SCREENTIME_TOTAL])
              IN  IF BinsValidos(bins)
                  THEN /\ analisis_completo' = ClasificarScreentime(base, bins)
                       /\ consola' = Append(consola, Msg("cabecera", Len(df_clean)))
                       /\ pc' = "report"
                       /\ UNCHANGED <<error, resultado>>
                  ELSE /\ analisis_completo' = base
                       /\ Termina(<<Msg("cabecera", Len(df_clean)),
                                    Msg("error_inesperado", "")>>, "inesperado")
    /\ UNCHANGED <<entorno, lecturas, escrituras, df, df_clean, tabla_contingencia,
                   tabla_porcentajes, df_top, stats_region, tablas_devices, tablas_restantes,
                   clientes_valiosos, archivo_salida>>

\* Lines 149-153: high frequency and high screentime
ClientesValiosos(analisis) ==
    SelectSeq(analisis, LAMBDA f :
        /\ f.CATEGORIA_FRECUENCIA \in
              {"Muy Frecuente (4-10)", "Super Usuario (11-50)", "Power User (50+)"}
        /\ f.CATEGORIA_SCREENTIME = "Alto Consumo")

\* Lines 121-155: the console report.
ReportScreentime ==
    /\ pc = "report"
    /\ script = "screentime"
    /\ clientes_valiosos' = ClientesValiosos(analisis_completo)
    /\ consola' = consola \o
          <<Msg("estadisticas", Len(analisis_completo)),
            Msg("distribucion_frecuencia",
                DistCategorias(analisis_completo, "CATEGORIA_FRECUENCIA", labels_frecuencia)),
            Msg("distribucion_screentime",
                DistCategorias(analisis_completo, "CATEGORIA_SCREENTIME", labels_screentime)),
            Msg("clientes_valiosos", Len(clientes_valiosos'))>>
    /\ pc' = "export"
    /\ UNCHANGED <<entorno, lecturas, escrituras, df, df_clean, total_registros,
                   tabla_contingencia, tabla_porcentajes, df_top, stats_region,
                   tablas_devices, tablas_restantes, analisis_completo, archivo_salida,
                   error, resultado>>

\* Lines 157-259: the charts, then the workbook.  The writer creates the file
\* when it is opened and saves the workbook when the with block is left, by
\* an exception too.
ExportScreentime ==
    /\ pc = "export"
    /\ script = "screentime"
    /\ \/ /\ archivo_salida' = "completo"
          /\ escrituras' = escrituras + 1
          /\ consola' = Append(consola, Msg("archivo_generado", ""))
          /\ resultado' = "analisis_completo"
          /\ pc' = "done"
          /\ UNCHANGED error
       \/ /\ UNCHANGED <<archivo_salida, escrituras>>   \* a chart or opening the writer fails
          /\ ErrorInesperado
       \/ /\ archivo_salida' = "parcial"    \* a step inside the with block fails
          /\ escrituras' = escrituras + 1
          /\ ErrorInesperado
    /\ UNCHANGED <<entorno, lecturas, df, df_clean, tablas>>

(***************************************************************************)
(* src/dataset_exam_customers.py                                           *)
(***************************************************************************)
\* Counter(customer_ids): one entry per id, in the order the ids are first
\* met, with the number of records of the id.
Counter(rows) ==
    LET ids    == [i \in DOMAIN rows |-> rows[i]["CUSTOMER_ID"].texto]
        claves == PrimeraAparicion(ids)
    IN  [k \in DOMAIN claves |->
            [CUSTOMER_ID |-> claves[k],
             FRECUENCIA  |-> Len(SelectSeq(ids, LAMBDA x : x = claves[k]))]]

\* sorted(items, key=lambda x: x[1], reverse=True): the sort is stable, items
\* with equal counts keep their order.
RECURSIVE SortedReverse(_)
SortedReverse(items) ==
    IF items = <<>> THEN <<>>
    ELSE LET i == PrimerMax([k \in DOMAIN items |-> items[k].FRECUENCIA])
         IN  <<items[i]>> \o SortedReverse(Quitar(items, i))

\* duplicados (line 55)
Duplicados(cuenta) == SelectSeq(cuenta, LAMBDA e : e.FRECUENCIA > 1)

\* Lines 41-55: the totals, the header and the counter.
AggregateCustomers ==
    /\ pc = "aggregate"
    /\ script = "customers"
    /\ total_registros' = Len(df_clean)
    /\ contador' = Counter(df_clean)
    /\ consola' = consola \o
          <<Msg("cabecera", ""),
            Msg("total_registros", Len(df_clean)),
            Msg("total_unicos", Cardinality(Valores(df_clean, "CUSTOMER_ID"))),
            Msg("registros_duplicados",
                Len(df_clean) - Cardinality(Valores(df_clean, "CUSTOMER_ID")))>>
    /\ pc' = "report"
    /\ UNCHANGED <<entorno, lecturas, escrituras, df, df_clean, tabla_contingencia,
                   tabla_porcentajes, df_top, stats_region, tablas_devices,
                   tablas_screentime, resultados, tablas_genre, tablas_shows,
                   datos_grafico, archivo_salida, error, resultado>>

\* Lines 57-87: the duplicated ids, the first ids and the summary.  With no
\* id at all line 86 divides by zero.
ReportCustomers ==
    /\ pc = "report"
    /\ script = "customers"
    /\ LET duplicados   == Duplicados(contador)
           total_unicos == Len(contador)
           lista == IF duplicados # <<>>
                    THEN <<Msg("duplicados", SortedReverse(duplicados)),
                           Msg("total_ids_duplicados", Len(duplicados))>>
                    ELSE <<Msg("sin_duplicados", "")>>
           ejemplos == IF total_unicos > 0
                       THEN <<Msg("ejemplos", SubSeq(contador, 1, Min(5, total_unicos)))>>
                       ELSE <<>>
       IN  IF total_unicos = 0
           THEN Termina(lista \o ejemplos
                           \o <<Msg("resumen", ""), Msg("error_inesperado", "")>>,
                        "inesperado")
           ELSE /\ consola' = consola \o lista \o ejemplos
                      \o <<Msg("resumen", ""),
                           Msg("porcentaje_duplicados",
                               RoundHalfEven(Len(duplicados) * 100 * Centesimas,
                                             total_unicos))>>
                /\ pc' = "export"
                /\ UNCHANGED <<error, resultado>>
    /\ UNCHANGED <<entorno, lecturas, escrituras, df, df_clean, tablas, archivo_salida>>

\* The table of lines 92-96
Resultados(cuenta) ==
    [k \in DOMAIN cuenta |->
        [CUSTOMER_ID  |-> cuenta[k].CUSTOMER_ID,
         FRECUENCIA   |-> cuenta[k].FRECUENCIA,
         ES_DUPLICADO |-> cuenta[k].FRECUENCIA > 1]]

\* Lines 89-104: the CSV file.  A failure is caught at lines 103-104, a
\* warning is printed and the function ends as it does after a success.
ExportCustomers ==
    /\ pc = "export"
    /\ script = "customers"
    /\ resultados' = Resultados(contador)
    /\ \/ /\ archivo_salida' = "completo"
          /\ escrituras' = escrituras + 1
          /\ consola' = Append(consola, Msg("archivo_generado", ""))
          /\ UNCHANGED error
       \/ /\ UNCHANGED <<archivo_salida, escrituras>>   \* the file cannot be opened
          /\ consola' = Append(consola, Msg("aviso_csv", ""))
          /\ error' = "csv"
       \/ /\ archivo_salida' = "parcial"                \* the write fails midway
          /\ escrituras' = escrituras + 1
          /\ consola' = Append(consola, Msg("aviso_csv", ""))
          /\ error' = "csv"
    /\ resultado' = "None"
    /\ pc' = "done"
    /\ UNCHANGED <<entorno, lecturas, df, df_clean, total_registros, tabla_contingencia,
                   tabla_porcentajes, df_top, stats_region, tablas_devices,
                   tablas_screentime, contador, tablas_genre, tablas_shows,
                   datos_grafico>>

(***************************************************************************)
(* src/dataset_exam_genre.py                                               *)
(***************************************************************************)
\* Mutant of ValueCounts: the entries stay in the order the texts are met.
ValueCountsSinOrden(rows, col) ==
    LET textos == [i \in DOMAIN rows |-> rows[i][col].texto]
        claves == PrimeraAparicion(textos)
    IN  {[k \in DOMAIN claves |->
            [etiqueta |-> claves[k],
             valor    |-> Len(SelectSeq(textos, LAMBDA x : x = claves[k]))]]}

\* Series.value_counts() of column col: one entry per distinct text with the
\* number of its rows, most frequent first; the order of texts with equally
\* many rows is not fixed.
ValueCounts(rows, col) ==
    LET textos  == [i \in DOMAIN rows |-> rows[i][col].texto]
        claves  == PrimeraAparicion(textos)
        cuentas == [k \in DOMAIN claves |->
                        Len(SelectSeq(textos, LAMBDA x : x = claves[k]))]
        pares   == [k \in DOMAIN claves |->
                        [etiqueta |-> claves[k], valor |-> cuentas[k]]]
    IN  OrdenadosDesc(pares, cuentas)

\* Lines 46-55: the counts and the header.
AggregateGenre ==
    /\ pc = "aggregate"
    /\ script = "genre"
    /\ conteo_generos' \in ValueCounts(df_clean, "GENRE")
    /\ total_registros' = Len(df_clean)
    /\ consola' = consola \o
          <<Msg("cabecera", ""),
            Msg("total_visualizaciones", Len(df_clean)),
            Msg("generos_unicos", Len(conteo_generos'))>>
    /\ pc' = "report"
    /\ UNCHANGED <<entorno, lecturas, escrituras, df, df_clean, tabla_contingencia,
                   tabla_porcentajes, df_top, stats_region, tablas_devices,
                   tablas_screentime, tablas_customers, reporte_df, tablas_shows,
                   datos_grafico, archivo_salida, error, resultado>>

\* How many genres the console lists and the pie chart shows one by one
\* (lines 60 and 86-88).
MaxGenerosGrafico == 10

\* Where head(n) ends and iloc[n:] starts: after n rows, or |n| rows before
\* the end when n is negative, never outside the table.
Corte(t, n) ==
    IF n >= 0 THEN Min(n, Len(t)) ELSE IF Len(t) + n > 0 THEN Len(t) + n ELSE 0

\* head(n) of a table
Head_n(t, n) == SubSeq(t, 1, Corte(t, n))

\* iloc[n:] of a table
IlocDesde(t, n) == SubSeq(t, Corte(t, n) + 1, Len(t))

\* reporte_df (lines 76-80), PORCENTAJE in hundredths of a percent
ReporteDf(conteo, total) ==
    [k \in DOMAIN conteo |->
        [GENERO          |-> conteo[k].etiqueta,
         VISUALIZACIONES |-> conteo[k].valor,
         PORCENTAJE      |-> Porcentaje(conteo[k].valor, total)]]

\* Lines 57-80: the ten most viewed genres, the most viewed genre and the
\* report table.  With no genre conteo_generos.index[0] (line 65) raises
\* IndexError.
ReportGenre ==
    /\ pc = "report"
    /\ script = "genre"
    /\ IF conteo_generos = <<>>
       THEN /\ Termina(<<Msg("top10", <<>>), Msg("error_inesperado", "")>>, "inesperado")
            /\ UNCHANGED reporte_df
       ELSE /\ consola' = consola \o
                  <<Msg("top10", Head_n(conteo_generos, MaxGenerosGrafico)),
                    Msg("genero_mas_visto", conteo_generos[1])>>
            /\ reporte_df' = ReporteDf(conteo_generos, total_registros)
            /\ pc' = "export"
            /\ UNCHANGED <<error, resultado>>
    /\ UNCHANGED <<entorno, lecturas, escrituras, df, df_clean, total_registros,
                   tabla_contingencia, tabla_porcentajes, df_top, stats_region,
                   tablas_devices, tablas_screentime, tablas_customers, conteo_generos,
                   tablas_shows, datos_grafico, archivo_salida>>

\* Mutant of DatosGraficoGenre: 'Otros' adds up the genres from the tenth on.
DatosGraficoGenreDesdeDecimo(conteo) ==
    IF Len(conteo) > MaxGenerosGrafico
    THEN Append(Head_n(conteo, MaxGenerosGrafico),
                [etiqueta |-> <<"Otros">>,
                 valor    |-> SumSeq([k \in 1..(Len(conteo) - MaxGenerosGrafico + 1) |->
                                         conteo[MaxGenerosGrafico - 1 + k].valor])])
    ELSE conteo

\* Lines 85-93: what the pie chart shows.
DatosGraficoGenre(conteo) ==
    IF Len(conteo) > MaxGenerosGrafico
    THEN Append(Head_n(conteo, MaxGenerosGrafico),
                [etiqueta |-> <<"Otros">>,
                 valor    |-> SumSeq([k \in 1..(Len(conteo) - MaxGenerosGrafico) |->
                                         conteo[MaxGenerosGrafico + k].valor])])
    ELSE conteo

\* Lines 82-161: the chart, then the workbook.  The writer creates the file
\* when it is opened and saves the workbook when the with block is left, by
\* an exception too.
ExportGenre ==
    /\ pc = "export"
    /\ script = "genre"
    /\ \/ /\ datos_grafico' = DatosGraficoGenre(conteo_generos)
          /\ archivo_salida' = "completo"
          /\ escrituras' = escrituras + 1
          /\ consola' = Append(consola, Msg("archivo_generado", ""))
          /\ resultado' = "reporte_df"
          /\ pc' = "done"
          /\ UNCHANGED error
       \/ /\ datos_grafico' = DatosGraficoGenre(conteo_generos)
          /\ UNCHANGED <<archivo_salida, escrituras>>   \* the chart or opening the writer fails
          /\ ErrorInesperado
       \/ /\ datos_grafico' = DatosGraficoGenre(conteo_generos)
          /\ archivo_salida' = "parcial"    \* a step inside the with block fails
          /\ escrituras' = escrituras + 1
          /\ ErrorInesperado
    /\ UNCHANGED <<entorno, lecturas, df, df_clean, total_registros, tabla_contingencia,
                   tabla_porcentajes, df_top, stats_region, tablas_devices,
                   tablas_screentime, tablas_customers, tablas_genre, tablas_shows>>

(***************************************************************************)
(* src/dataset_exam_top_shows.py                                           *)
(***************************************************************************)
\* round(4): PORCENTAJE is held in ten-thousandths of a percent.
DiezMilesimas == 10000

\* Line 68: groupby(['TITLE', 'GENRE']).size().reset_index(): one row per
\* pair that occurs, in sorted order of TITLE, then GENRE, numbered from 0.
ConteoAgrupado(rows) ==
    LET ts == SortedLabels(Valores(rows, "TITLE"))
        gs == SortedLabels(Valores(rows, "GENRE"))
        pares == [k \in 1..(Len(ts) * Len(gs)) |->
                     <<ts[((k - 1) \div Len(gs)) + 1], gs[((k - 1) % Len(gs)) + 1]>>]
        presentes == SelectSeq(pares, LAMBDA q : Contar(rows, "TITLE", "GENRE", q[1], q[2]) > 0)
    IN  [k \in DOMAIN presentes |->
            [indice          |-> k - 1,
             TITLE           |-> presentes[k][1],
             GENRE           |-> presentes[k][2],
             VISUALIZACIONES |->
                Contar(rows, "TITLE", "GENRE", presentes[k][1], presentes[k][2])]]

\* Mutant of ConPorcentajes: PORCENTAJE_ACUMULADO is the sum of the rows
\* that come after the row.
ConPorcentajesDesdeAbajo(t, total) ==
    LET pct(k) == RoundHalfEven(t[k].VISUALIZACIONES * 100 * DiezMilesimas, total)
    IN  [k \in DOMAIN t |->
            [indice               |-> t[k].indice,
             TITLE                |-> t[k].TITLE,
             GENRE                |-> t[k].GENRE,
             VISUALIZACIONES      |-> t[k].VISUALIZACIONES,
             PORCENTAJE           |-> pct(k),
             PORCENTAJE_ACUMULADO |-> SumSeq([j \in 1..(Len(t) - k) |-> pct(k + j)])]]

\* Lines 74-75: PORCENTAJE, rounded to four decimals, and its running sum.
ConPorcentajes(t, total) ==
    LET pct(k) == RoundHalfEven(t[k].VISUALIZACIONES * 100 * DiezMilesimas, total)
    IN  [k \in DOMAIN t |->
            [indice               |-> t[k].indice,
             TITLE                |-> t[k].TITLE,
             GENRE                |-> t[k].GENRE,
             VISUALIZACIONES      |-> t[k].VISUALIZACIONES,
             PORCENTAJE           |-> pct(k),
             PORCENTAJE_ACUMULADO |-> SumSeq([j \in 1..k |-> pct(j)])]]

\* Lines 68-75: sort_values('VISUALIZACIONES', ascending=False) is not a
\* stable sort, rows with equal views may come out in any order.
ConteoShows(rows) ==
    LET grupos == ConteoAgrupado(rows)
    IN  {ConPorcentajes(t, Len(rows)) :
            t \in OrdenadosDesc(grupos, [k \in DOMAIN grupos |-> grupos[k].VISUALIZACIONES])}

\* Mutant of IdxMaxPorGenero: the last row of the genre.
IdxUltimoPorGenero(t, g) ==
    LET k == CHOOSE a \in DOMAIN t :
                /\ t[a].GENRE = g
                /\ \A b \in DOMAIN t : t[b].GENRE = g => b <= a
    IN  t[k].indice

\* groupby('GENRE')['VISUALIZACIONES'].idxmax() for genre g: the index label
\* of the first row of g, in the order of the table, that has the most views
\* of g.
IdxMaxPorGenero(t, g) ==
    LET suyos == {a \in DOMAIN t : t[a].GENRE = g}
        k == CHOOSE a \in suyos :
                /\ \A b \in suyos : t[b].VISUALIZACIONES <= t[a].VISUALIZACIONES
                /\ \A b \in suyos :
                      t[b].VISUALIZACIONES = t[a].VISUALIZACIONES => a <= b
    IN  t[k].indice

\* conteo_shows.loc[labels]
Loc(t, labels) ==
    [j \in DOMAIN labels |-> t[CHOOSE a \in DOMAIN t : t[a].indice = labels[j]]]

\* Line 82: the most viewed show of each genre, the genres in sorted order.
TopShowPorGenero(t) ==
    LET gs == SortedLabels({t[a].GENRE : a \in DOMAIN t})
    IN  Loc(t, [j \in DOMAIN gs |-> IdxMaxPorGenero(t, gs[j])])

\* Lines 54-82: the totals, the header and the two tables.
AggregateShows ==
    /\ pc = "aggregate"
    /\ script = "top_shows"
    /\ total_registros' = Len(df_clean)
    /\ conteo_shows' \in ConteoShows(df_clean)
    /\ top_show_por_genero' = TopShowPorGenero(conteo_shows')
    /\ consola' = consola \o
          <<Msg("cabecera", ""),
            Msg("total_visualizaciones", Len(df_clean)),
            Msg("shows_unicos", Cardinality(Valores(df_clean, "TITLE"))),
            Msg("generos_unicos", Cardinality(Valores(df_clean, "GENRE")))>>
    /\ pc' = "report"
    /\ UNCHANGED <<entorno, lecturas, escrituras, df, df_clean, tabla_contingencia,
                   tabla_porcentajes, df_top, stats_region, tablas_devices,
                   tablas_screentime, tablas_customers, tablas_genre, datos_grafico,
                   archivo_salida, error, resultado>>

\* Lines 84-94: the ten most viewed shows and the top show of each genre.
ReportShows ==
    /\ pc = "report"
    /\ script = "top_shows"
    /\ consola' = consola \o
          <<Msg("top10", Head_n(conteo_shows, MaxGenerosGrafico)),
            Msg("top_por_genero", top_show_por_genero)>>
    /\ pc' = "export"
    /\ UNCHANGED <<entorno, lecturas, escrituras, df, df_clean, tablas, archivo_salida,
                   error, resultado>>

\* A row of datos_grafico: what the pie chart shows for a row of conteo_shows.
FilaGrafico(f) ==
    [etiqueta |-> f.TITLE, valor |-> f.VISUALIZACIONES, PORCENTAJE |-> f.PORCENTAJE]

\* Mutant of DatosGraficoShows: 'Otros' adds up every row but the first top_n
\* counted from the start, whatever the sign of top_n.
DatosGraficoShowsSinSigno(t, n) ==
    IF Len(t) > n
    THEN LET resto == SubSeq(t, (IF n >= 0 THEN n ELSE -n) + 1, Len(t))
             top_shows == Head_n(t, n)
         IN  Append([k \in DOMAIN top_shows |-> FilaGrafico(top_shows[k])],
                    [etiqueta   |-> <<"Otros">>,
                     valor      |-> SumSeq([k \in DOMAIN resto |-> resto[k].VISUALIZACIONES]),
                     PORCENTAJE |-> SumSeq([k \in DOMAIN resto |-> resto[k].PORCENTAJE])])
    ELSE [k \in DOMAIN t |-> FilaGrafico(t[k])]

\* Lines 96-112: what the pie chart shows.
DatosGraficoShows(t, n) ==
    IF Len(t) > n
    THEN LET top_shows == Head_n(t, n)
             resto     == IlocDesde(t, n)
         IN  Append([k \in DOMAIN top_shows |-> FilaGrafico(top_shows[k])],
                    [etiqueta   |-> <<"Otros">>,
                     valor      |-> SumSeq([k \in DOMAIN resto |-> resto[k].VISUALIZACIONES]),
                     PORCENTAJE |-> SumSeq([k \in DOMAIN resto |-> resto[k].PORCENTAJE])])
    ELSE [k \in DOMAIN t |-> FilaGrafico(t[k])]

\* Lines 96-256: the chart, then the workbook.  The writer creates the file
\* when it is opened and saves the workbook when the with block is left, by
\* an exception too; with no show conteo_shows.iloc[0] (line 193) raises
\* inside the with block.
ExportShows ==
    /\ pc = "export"
    /\ script = "top_shows"
    /\ datos_grafico' = DatosGraficoShows(conteo_shows, top_n)
    /\ \/ /\ conteo_shows # <<>>
          /\ archivo_salida' = "completo"
          /\ escrituras' = escrituras + 1
          /\ consola' = Append(consola, Msg("archivo_generado", ""))
          /\ resultado' = "conteo_shows"
          /\ pc' = "done"
          /\ UNCHANGED error
       \/ /\ UNCHANGED <<archivo_salida, escrituras>>   \* the chart or opening the writer fails
          /\ ErrorInesperado
       \/ /\ archivo_salida' = "parcial"    \* a step inside the with block fails
          /\ escrituras' = escrituras + 1
          /\ ErrorInesperado
    /\ UNCHANGED <<entorno, lecturas, df, df_clean, total_registros, tabla_contingencia,
                   tabla_porcentajes, df_top, stats_region, tablas_devices,
                   tablas_screentime, tablas_customers, tablas_genre, tablas_shows>>

(***************************************************************************)
(* One-region sheets: up to MaxVistas views of RegionA spread over up to   *)
(* eight genres, the rows of a genre together and the genres in            *)
(* non-increasing order of their number of views.  These reach the         *)
(* diversity indices that need many records (an index is the same for      *)
(* every order of the rows and every naming of the genres).                *)
(***************************************************************************)
GenerosBloque ==
    << Txt(<<"Comedy">>), Txt(<<"Drama", Blank>>), Txt(<<"Action">>),
       Txt(<<Blank, "Horror">>), Txt(<<"Kids">>), Txt(<<"Musical">>),
       Txt(<<"Romance">>), Txt(<<"Thriller">>) >>

\* The non-increasing sequences of k numbers, none above m, adding up to at most t.
RECURSIVE Particiones(_, _, _)
Particiones(k, m, t) ==
    IF k = 0 THEN {<<>>}
    ELSE UNION {{<<c>> \o resto : resto \in Particiones(k - 1, c, t - c)} :
                    c \in 0..Min(m, t)}

RECURSIVE FilasBloque(_, _)
FilasBloque(cuenta, j) ==
    IF j > Len(cuenta) THEN <<>>
    ELSE [i \in 1..cuenta[j] |->
            [REGION |-> Txt(<<"RegionA">>), GENRE |-> GenerosBloque[j]]]
         \o FilasBloque(cuenta, j + 1)

InitDiversidad ==
    /\ script = "region_genre"
    /\ archivo_existe = TRUE
    /\ hoja = "Dataset"
    /\ columnas = {"REGION", "GENRE"}
    /\ \E cuenta \in Particiones(Len(GenerosBloque), MaxVistas, MaxVistas) :
         filas = FilasBloque(cuenta, 1)
    /\ Inicio

\* Two-region sheets: the rows of RegionA, then the rows of RegionB, each
\* region with up to MaxVistasRegion views spread over up to eight genres.
RECURSIVE FilasBloqueRegion(_, _, _)
FilasBloqueRegion(r, cuenta, j) ==
    IF j > Len(cuenta) THEN <<>>
    ELSE [i \in 1..cuenta[j] |-> [REGION |-> Txt(<<r>>), GENRE |-> GenerosBloque[j]]]
         \o FilasBloqueRegion(r, cuenta, j + 1)

InitRegiones ==
    /\ script = "region_genre"
    /\ archivo_existe = TRUE
    /\ hoja = "Dataset"
    /\ columnas = {"REGION", "GENRE"}
    /\ \E ca, cb \in Particiones(Len(GenerosBloque), MaxVistasRegion, MaxVistasRegion) :
         filas = FilasBloqueRegion("RegionA", ca, 1) \o FilasBloqueRegion("RegionB", cb, 1)
    /\ Inicio

Init == InitDe("region_genre")

Next ==
    \/ Load
    \/ ValidateColumns
    \/ Clean
    \/ AggregateRegionGenre
    \/ ReportRegionGenre
    \/ ExportRegionGenre

Spec == Init /\ [][Next]_vars

SpecDiversidad == InitDiversidad /\ [][Next]_vars

SpecRegiones == InitRegiones /\ [][Next]_vars

InitDevices == InitDe("devices")

NextDevices ==
    \/ Load
    \/ ValidateColumns
    \/ Clean
    \/ AggregateDevices
    \/ ReportDevices
    \/ ExportDevices

SpecDevices == InitDevices /\ [][NextDevices]_vars

\* Two-customer sheets: n1 records of C1 with a screentime of 1, then n2
\* records of C2 with a screentime of 2.
FilasClientes(n1, n2) ==
    [i \in 1..n1 |-> [CUSTOMER_ID |-> Txt(<<"C1">>), SCREENTIME |-> Num(1)]]
    \o [i \in 1..n2 |-> [CUSTOMER_ID |-> Txt(<<"C2">>), SCREENTIME |-> Num(2)]]

InitClientes ==
    /\ script = "screentime"
    /\ archivo_existe = TRUE
    /\ hoja = "Dataset"
    /\ columnas = {"CUSTOMER_ID", "SCREENTIME"}
    /\ \E n1, n2 \in 0..MaxVistasCliente : filas = FilasClientes(n1, n2)
    /\ Inicio

InitScreentime == InitDe("screentime") \/ InitClientes

NextScreentime ==
    \/ Load
    \/ ValidateColumns
    \/ Clean
    \/ AggregateScreentime
    \/ ReportScreentime
    \/ ExportScreentime

SpecScreentime == InitScreentime /\ [][NextScreentime]_vars

InitCustomers == InitDe("customers")

NextCustomers ==
    \/ Load
    \/ ValidateColumns
    \/ Clean
    \/ AggregateCustomers
    \/ ReportCustomers
    \/ ExportCustomers

SpecCustomers == InitCustomers /\ [][NextCustomers]_vars

\* Names for the genres of a many-genre sheet.
GenerosMuchos ==
    << <<"Action">>, <<"Anime">>, <<"Comedy">>, <<"Crime">>, <<"Drama">>, <<"Fantasy">>,
       <<"Horror">>, <<"Kids">>, <<"Musical">>, <<"Romance">>, <<"Sports">>,
       <<"Thriller">>, <<"Western">> >>

\* A sheet of k genres: genre j has j records, genre b one more (as many as
\* the next genre); the least viewed genres come first.
RECURSIVE FilasGeneros(_, _, _)
FilasGeneros(k, b, j) ==
    IF j > k THEN <<>>
    ELSE [i \in 1..(IF j = b THEN j + 1 ELSE j) |-> [GENRE |-> Txt(GenerosMuchos[j])]]
         \o FilasGeneros(k, b, j + 1)

InitGeneros ==
    /\ script = "genre"
    /\ archivo_existe = TRUE
    /\ hoja = "Dataset"
    /\ columnas = {"GENRE"}
    /\ \E k \in (MaxGenerosGrafico - 1)..MaxGenerosBloque :
          \E b \in 0..k : filas = FilasGeneros(k, b, 1)
    /\ Inicio

InitGenre == InitDe("genre") \/ InitGeneros

NextGenre ==
    \/ Load
    \/ ValidateColumns
    \/ Clean
    \/ AggregateGenre
    \/ ReportGenre
    \/ ExportGenre

SpecGenre == InitGenre /\ [][NextGenre]_vars

\* The values of top_n a run of the top-shows script is given.
TopNs == {-1, 0, 2, top_n_defecto}

InitShows ==
    /\ script = "top_shows"
    /\ Entorno("top_shows")
    /\ InicioTablas
    /\ top_n \in TopNs

NextShows ==
    \/ Load
    \/ ValidateColumns
    \/ Clean
    \/ AggregateShows
    \/ ReportShows
    \/ ExportShows

SpecShows == InitShows /\ [][NextShows]_vars

\* The two scripts that draw a pie chart.
InitGrafico == InitGenre \/ InitShows

NextGrafico ==
    \/ Load
    \/ ValidateColumns
    \/ Clean
    \/ AggregateGenre
    \/ ReportGenre
    \/ ExportGenre
    \/ AggregateShows
    \/ ReportShows
    \/ ExportShows

SpecGrafico == InitGrafico /\ [][NextGrafico]_vars

(***************************************************************************)
(* Properties                                                              *)
(***************************************************************************)
\* The aggregation of lines 54-118 has started: its header is on the console.
Agregado == Msg("cabecera", "") \in Range(consola)

\* The aggregation ran to its end: every table is built.
Tabulado == Agregado /\ (pc \in {"report", "export"} \/ resultado = "dict" \/ df_top # <<>>)

\* The cleaned records whose REGION is r and GENRE is g.
Registros(r, g) ==
    {i \in DOMAIN df_clean :
        df_clean[i]["REGION"].texto = r /\ df_clean[i]["GENRE"].texto = g}

\* C1: every entry (r, g) of the contingency table, r a region and g a genre
\* of the cleaned records, is the number of cleaned records with REGION r and
\* GENRE g, which is 0 for a pair that never occurs.
C1_ContingencyCounts ==
    (script = "region_genre" /\ Tabulado) =>
        /\ Range(tabla_contingencia.index) = Valores(df_clean, "REGION")
        /\ Range(tabla_contingencia.columns) = Valores(df_clean, "GENRE")
        /\ \A r \in Valores(df_clean, "REGION"), g \in Valores(df_clean, "GENRE") :
             tabla_contingencia.valores[<<r, g>>] = Cardinality(Registros(r, g))

\* A table with a pair that never occurs beside a pair that occurs twice.
C1_Witness ==
    /\ script = "region_genre" /\ Tabulado
    /\ \E p \in DOMAIN tabla_contingencia.valores :
         tabla_contingencia.valores[p] = 0 /\ Registros(p[1], p[2]) = {}
    /\ \E p \in DOMAIN tabla_contingencia.valores : tabla_contingencia.valores[p] >= 2

\* C2: the row totals of the contingency table, summed over all regions, equal
\* total_registros, the number of cleaned records.
C2_RowTotalsSum ==
    (script = "region_genre" /\ Tabulado) =>
        /\ total_registros = Len(df_clean)
        /\ SumSeq([k \in 1..Len(tabla_contingencia.index) |->
                      TotalFila(tabla_contingencia, tabla_contingencia.index[k])])
             = total_registros

\* Two regions, three or more cleaned records, and a record that cleaning dropped.
C2_Witness ==
    /\ script = "region_genre" /\ Tabulado
    /\ Len(tabla_contingencia.index) = 2
    /\ total_registros >= 3
    /\ Len(df.filas) > total_registros

Abs(x) == IF x < 0 THEN -x ELSE x

\* One unit of the index (1.0) in the model's units of 1/10000.
Unidad == Centesimas * Centesimas

\* C3: every region has exactly one tier, decided by its index: 'Alta
\* Diversidad' up to 1500, 'Media Diversidad' above 1500 and up to 2500, 'Baja
\* Diversidad' above 2500; no region is without a tier.
C3_TierFromIndex ==
    (script = "region_genre" /\ Tabulado) =>
        \A k \in DOMAIN stats_region :
            LET x == stats_region[k].INDICE_DIVERSIDAD
                n == stats_region[k].NIVEL_DIVERSIDAD
            IN  /\ n \in {"Alta Diversidad", "Media Diversidad", "Baja Diversidad"}
                /\ (n = "Alta Diversidad") <=> (x <= 1500 * Unidad)
                /\ (n = "Media Diversidad") <=> (1500 * Unidad < x /\ x <= 2500 * Unidad)
                /\ (n = "Baja Diversidad") <=> (2500 * Unidad < x)

\* A region whose index is exactly 1500, in the high tier.
C3_Witness ==
    /\ script = "region_genre" /\ Tabulado
    /\ \E k \in DOMAIN stats_region :
         /\ stats_region[k].INDICE_DIVERSIDAD = 1500 * Unidad
         /\ stats_region[k].NIVEL_DIVERSIDAD = "Alta Diversidad"

\* Further cases of C3 that the model reaches: the other two boundaries.
C3_Limite2500 ==
    \E k \in DOMAIN stats_region :
        /\ stats_region[k].INDICE_DIVERSIDAD = 2500 * Unidad
        /\ stats_region[k].NIVEL_DIVERSIDAD = "Media Diversidad"

C3_Limite10000 ==
    \E k \in DOMAIN stats_region :
        /\ stats_region[k].INDICE_DIVERSIDAD = 10000 * Unidad
        /\ stats_region[k].NIVEL_DIVERSIDAD = "Baja Diversidad"

\* C9: in every row of the percentage table each percentage is the genre's
\* share of the region's records, times 100, rounded to the nearest hundredth
\* (off by at most 0.005), and the row adds up to 100 within 0.005 per genre
\* column.
C9_PercentagesSumTo100 ==
    (script = "region_genre" /\ Tabulado) =>
        \A r \in Range(tabla_porcentajes.index) :
            LET cols  == Range(tabla_porcentajes.columns)
                total == Cardinality({i \in DOMAIN df_clean : df_clean[i]["REGION"].texto = r})
                suma  == SumSeq(Fila(tabla_porcentajes, r))
            IN  /\ \A g \in cols :
                     2 * Abs(tabla_porcentajes.valores[<<r, g>>] * total
                             - 100 * 100 * Cardinality(Registros(r, g))) <= total
                /\ 2 * Abs(suma - 100 * 100) <= Cardinality(cols)

\* A row whose rounded percentages do not add up to 100.00 exactly.
C9_Witness ==
    /\ script = "region_genre" /\ Tabulado
    /\ \E r \in Range(tabla_porcentajes.index) :
         SumSeq(Fila(tabla_porcentajes, r)) # 100 * 100

\* The number of records of each genre that region r has records of.
CuentasPositivas(r) ==
    {Cardinality(Registros(r, g)) : g \in Valores(df_clean, "GENRE")} \ {0}

GenerosDe(r) == {g \in Valores(df_clean, "GENRE") : Registros(r, g) # {}}

\* C10: a region whose records all have one genre has index exactly 10000; a
\* region whose records are spread equally over N genres has index 10000/N up
\* to the rounding of the shares: each share is off by at most 0.005, so the
\* index is off by at most 1 + N * 0.000025 (N times the index is within
\* N * Unidad + N * N / 4 of 10000 * Unidad).
C10_IndexOfEqualShares ==
    (script = "region_genre" /\ Tabulado) =>
        \A k \in DOMAIN stats_region :
            LET r == stats_region[k].REGION
                x == stats_region[k].INDICE_DIVERSIDAD
                N == Cardinality(GenerosDe(r))
            IN  /\ N = 1 => x = 10000 * Unidad
                /\ Cardinality(CuentasPositivas(r)) = 1 =>
                     Abs(N * x - 10000 * Unidad) <= N * Unidad + (N * N) \div 4

\* A region spread equally over 7 genres, its index not exactly 10000/7.
C10_Witness ==
    /\ script = "region_genre" /\ Tabulado
    /\ \E k \in DOMAIN stats_region :
         LET r == stats_region[k].REGION
         IN  /\ Cardinality(GenerosDe(r)) = 7
             /\ Cardinality(CuentasPositivas(r)) = 1
             /\ 7 * stats_region[k].INDICE_DIVERSIDAD # 10000 * Unidad

\* The sheet was read: the run got past lines 20-36.
Cargado == pc # "load" /\ error \notin {"archivo_no_existe", "lectura"}

\* The cleaning step ran.
Limpio ==
    /\ pc \notin {"load", "validate", "clean"}
    /\ error \notin {"archivo_no_existe", "lectura", "columna_faltante"}

\* C4: a run whose cleaned dataset is empty ends with a validation error for
\* empty input, raised before any aggregation, and not with an exception that
\* only the handler at the end of the function catches.
C4_EmptyInputValidationError ==
    (pc = "done" /\ Limpio /\ df_clean = <<>>) =>
        (error = "entrada_vacia" /\ ~Agregado)

ColumnaFalta == \E c \in Range(columnas_requeridas(script)) : c \notin df.columns

\* C6: when a required column is absent from the loaded sheet the run reports
\* a missing column and returns None, and nothing is cleaned, aggregated or
\* exported: the output file is not touched.
C6_MissingColumnAborts ==
    /\ (Cargado /\ pc # "validate" /\ ColumnaFalta) =>
         /\ pc = "done"
         /\ error = "columna_faltante"
         /\ resultado = "None"
         /\ \E i \in DOMAIN consola :
              /\ consola[i][1] = "error_columna"
              /\ consola[i][2] \in Range(columnas_requeridas(script)) \ df.columns
         /\ df_clean = <<>>
         /\ ~Agregado
         /\ tabla_contingencia = TablaVacia /\ df_top = <<>> /\ stats_region = <<>>
         /\ archivo_salida = "ausente"
    /\ error = "columna_faltante" => (Cargado /\ ColumnaFalta)

\* A sheet with rows and REGION but no GENRE, after the run.
C6_Witness ==
    /\ pc = "done"
    /\ error = "columna_faltante"
    /\ df.columns = {"REGION"}
    /\ df.filas # <<>>

\* C7: a run that ends in a failure returns None and leaves no output file.
C7_FailureLeavesNoOutput ==
    (pc = "done" /\ error # "ninguno") =>
        (resultado = "None" /\ archivo_salida = "ausente")

\* The position in df_clean of the first record of region r with genre g.
PrimerEncuentro(r, g) == CHOOSE i \in Registros(r, g) : \A j \in Registros(r, g) : i <= j

\* Two rows of df_top of one region, the first ranked above the second.
ParesTop ==
    {p \in (DOMAIN df_top) \X (DOMAIN df_top) :
        /\ df_top[p[1]].REGION = df_top[p[2]].REGION
        /\ df_top[p[1]].RANKING < df_top[p[2]].RANKING}

\* C8 as stated: within a region the ranking lists genres by count in
\* non-increasing order, and of two genres with equal counts the one met first
\* in the input order of the records ranks higher.
C8_TiesByEncounterOrder ==
    (script = "region_genre" /\ Tabulado) =>
        \A p \in ParesTop :
            LET a == df_top[p[1]]
                b == df_top[p[2]]
            IN  /\ a.VISUALIZACIONES >= b.VISUALIZACIONES
                /\ (a.VISUALIZACIONES = b.VISUALIZACIONES /\ a.VISUALIZACIONES > 0) =>
                     PrimerEncuentro(a.REGION, a.GENERO) < PrimerEncuentro(b.REGION, b.GENERO)

\* C8, amended: within a region the ranking lists genres by count in
\* non-increasing order, RANKING numbering them from 1; when the contingency
\* table has more than 3 genre columns, of two genres with equal counts the
\* one whose label sorts first (the column order of the table) ranks higher.
C8_TiesByColumnOrder ==
    (script = "region_genre" /\ Tabulado) =>
        /\ \A p \in ParesTop :
             LET a == df_top[p[1]]
                 b == df_top[p[2]]
             IN  /\ a.VISUALIZACIONES >= b.VISUALIZACIONES
                 /\ (a.VISUALIZACIONES = b.VISUALIZACIONES
                        /\ Len(tabla_contingencia.columns) > 3) =>
                      Rank(a.GENERO) < Rank(b.GENERO)
        /\ \A i \in DOMAIN df_top :
             /\ df_top[i].VISUALIZACIONES
                  = Cardinality(Registros(df_top[i].REGION, df_top[i].GENERO))
             /\ df_top[i].RANKING =
                  1 + Cardinality({j \in 1..(i - 1) : df_top[j].REGION = df_top[i].REGION})

\* More than 3 genre columns, and two genres of a region tied with records of
\* their own, the one met later in the input ranked higher.
C8_Witness ==
    /\ script = "region_genre" /\ Tabulado
    /\ Len(tabla_contingencia.columns) > 3
    /\ \E p \in ParesTop :
         LET a == df_top[p[1]]
             b == df_top[p[2]]
         IN  /\ a.VISUALIZACIONES = b.VISUALIZACIONES
             /\ a.VISUALIZACIONES > 0
             /\ PrimerEncuentro(a.REGION, a.GENERO) > PrimerEncuentro(b.REGION, b.GENERO)

\* C5: in every script, after the cleaning step every field of every record
\* kept is a text that is not null, not 'nan', not empty, and has no blank at
\* either end.
C5_CleanedFieldsTrimmedNonEmpty ==
    Limpio =>
        \A i \in DOMAIN df_clean : \A c \in DOMAIN df_clean[i] :
            LET v == df_clean[i][c]
            IN  /\ ~v.nulo
                /\ v.texto # <<"nan">>
                /\ v.texto # <<>>
                /\ Head(v.texto) # Blank
                /\ v.texto[Len(v.texto)] # Blank

\* The severity of a tier under High < Medium < Low; 0 for no tier.
Severidad(nivel) ==
    CASE nivel = "Alta Diversidad"  -> 1
      [] nivel = "Media Diversidad" -> 2
      [] nivel = "Baja Diversidad"  -> 3
      [] OTHER                      -> 0

\* C11: of two regions, the one with the smaller or equal concentration index
\* never has the more severe tier (High < Medium < Low), and each has a tier.
C11_TierMonotonic ==
    Tabulado =>
        \A i, j \in DOMAIN stats_region :
            /\ Severidad(stats_region[i].NIVEL_DIVERSIDAD) > 0
            /\ stats_region[i].INDICE_DIVERSIDAD <= stats_region[j].INDICE_DIVERSIDAD =>
                 Severidad(stats_region[i].NIVEL_DIVERSIDAD)
                    <= Severidad(stats_region[j].NIVEL_DIVERSIDAD)

\* Two regions, the first High and the second Medium.
C11_Witness ==
    /\ Tabulado
    /\ Len(stats_region) = 2
    /\ stats_region[1].NIVEL_DIVERSIDAD = "Alta Diversidad"
    /\ stats_region[2].NIVEL_DIVERSIDAD = "Media Diversidad"
    /\ stats_region[1].INDICE_DIVERSIDAD < stats_region[2].INDICE_DIVERSIDAD

\* Tables with a Medium and a Low region, and with a High and a Low region.
C11_MediaBaja ==
    /\ Tabulado
    /\ Len(stats_region) = 2
    /\ stats_region[1].NIVEL_DIVERSIDAD = "Baja Diversidad"
    /\ stats_region[2].NIVEL_DIVERSIDAD \in {"Media Diversidad", "Alta Diversidad"}

\* The cleaned records are (RegionA, Comedy), (RegionA, Comedy),
\* (RegionA, Drama), (RegionB, Drama), in this order.
EjemploRegistros ==
    [i \in DOMAIN df_clean |-> <<df_clean[i]["REGION"].texto, df_clean[i]["GENRE"].texto>>]
        = << <<<<"RegionA">>, <<"Comedy">>>>, <<<<"RegionA">>, <<"Comedy">>>>,
             <<<<"RegionA">>, <<"Drama">>>>,  <<<<"RegionB">>, <<"Drama">>>> >>

\* What the example says of every table but the index of RegionA.
EjemploTablas ==
    /\ tabla_contingencia.index = << <<"RegionA">>, <<"RegionB">> >>
    /\ tabla_contingencia.columns = << <<"Comedy">>, <<"Drama">> >>
    /\ Fila(tabla_contingencia, <<"RegionA">>) = <<2, 1>>
    /\ Fila(tabla_contingencia, <<"RegionB">>) = <<0, 1>>
    /\ Fila(tabla_porcentajes, <<"RegionA">>) = <<6667, 3333>>
    /\ stats_region[1].REGION = <<"RegionA">>
    /\ stats_region[1].NIVEL_DIVERSIDAD = "Baja Diversidad"

\* C12 as stated: for the example records the contingency table is
\* RegionA {Comedy 2, Drama 1}, RegionB {Comedy 0, Drama 1}, the shares of
\* RegionA are 66.67 and 33.33, its tier is Low, and its index is 5555.6 to
\* one decimal.
C12_ExampleIndex55556 ==
    (script = "region_genre" /\ Tabulado /\ EjemploRegistros) =>
        /\ EjemploTablas
        /\ 2 * Abs(stats_region[1].INDICE_DIVERSIDAD - 55556000) <= Unidad \div 10

\* C12, amended: the same tables, shares and tier, and an index of RegionA of
\* 66.67^2 + 33.33^2 = 5555.7778.
C12_ExampleIndex55558 ==
    (script = "region_genre" /\ Tabulado /\ EjemploRegistros) =>
        /\ EjemploTablas
        /\ stats_region[1].INDICE_DIVERSIDAD = 55557778

\* The run on the example records has built its tables.
C12_Witness == script = "region_genre" /\ Tabulado /\ EjemploRegistros

\* C13: the concentration index of every region, computed from the rounded
\* shares, is at least 0 and at most 10000.
C13_IndexInRange ==
    Tabulado =>
        \A k \in DOMAIN stats_region :
            /\ stats_region[k].INDICE_DIVERSIDAD >= 0
            /\ stats_region[k].INDICE_DIVERSIDAD <= 10000 * Unidad

\* A region whose rounded shares add up to more than 100.
C13_Witness ==
    /\ Tabulado
    /\ \E k \in DOMAIN stats_region :
         SumSeq(Fila(tabla_porcentajes, stats_region[k].REGION)) > 100 * Centesimas

\* A region whose index is the upper end of the range.
C13_Maximo ==
    /\ Tabulado
    /\ \E k \in DOMAIN stats_region :
         /\ stats_region[k].INDICE_DIVERSIDAD = 10000 * Unidad
         /\ stats_region[k].TOTAL_VISUALIZACIONES > 1

\* A cell of the sheet that holds a label: not null, and not '' or 'nan' once
\* the blanks at its ends are removed.
CeldaValida(c) ==
    /\ ~c.nulo
    /\ RStrip(LStrip(c.texto)) \notin {<<>>, <<"nan">>}

\* The rows of the loaded sheet whose REGION reads r and that hold a label in
\* both columns.
FilasValidasDe(r) ==
    {i \in DOMAIN df.filas :
        /\ CeldaValida(df.filas[i]["REGION"])
        /\ CeldaValida(df.filas[i]["GENRE"])
        /\ RStrip(LStrip(df.filas[i]["REGION"].texto)) = r}

\* The regions named in the loaded sheet all of whose records cleaning removes.
RegionesFiltradas ==
    {r \in {RStrip(LStrip(df.filas[i]["REGION"].texto)) :
                i \in {j \in DOMAIN df.filas : CeldaValida(df.filas[j]["REGION"])}} :
        FilasValidasDe(r) = {}}

\* C14 as stated: a region whose records are all removed by the filtering
\* still appears in the contingency table, with zero records, so that its
\* shares are a division by zero.
C14_FilteredRegionHasZeroRow ==
    (script = "region_genre" /\ Tabulado) =>
        \A r \in RegionesFiltradas :
            /\ r \in Range(tabla_contingencia.index)
            /\ TotalFila(tabla_contingencia, r) = 0

\* C14, amended: every region of the contingency table has at least one
\* cleaned record, its row total being the number of its records that hold a
\* label in both columns, so no share divides by zero; a region whose records
\* are all removed by the filtering does not appear in the table.
C14_NoZeroRecordRegion ==
    (script = "region_genre" /\ Tabulado) =>
        /\ \A k \in DOMAIN tabla_contingencia.index :
             LET r == tabla_contingencia.index[k]
             IN  /\ TotalFila(tabla_contingencia, r) >= 1
                 /\ TotalFila(tabla_contingencia, r) = Cardinality(FilasValidasDe(r))
        /\ \A r \in RegionesFiltradas : r \notin Range(tabla_contingencia.index)

\* The tables are built from a sheet in which every record of some region
\* was removed by the filtering.
C14_Witness ==
    /\ script = "region_genre" /\ Tabulado
    /\ RegionesFiltradas # {}

\* C15: when the sheet 'Dataset' cannot be read and the second sheet can, the
\* run warns, loads the second sheet and goes on with its data; it ends with
\* a read error exactly when the file exists and neither read succeeds.
C15_FallbackToSecondSheet ==
    /\ (archivo_existe /\ hoja = "segunda" /\ pc # "load") =>
         /\ df = [columns |-> columnas, filas |-> filas]
         /\ Msg("aviso_segunda_hoja", "") \in Range(consola)
         /\ error # "lectura"
         /\ Limpio => df_clean = Limpiar(script, filas)
    /\ (error = "lectura") <=> (archivo_existe /\ hoja = "ninguna" /\ pc # "load")
    /\ (error = "lectura") =>
         /\ pc = "done" /\ resultado = "None"
         /\ consola = <<Msg("error_lectura", "")>>
    /\ Msg("aviso_segunda_hoja", "") \in Range(consola) => hoja = "segunda"

\* A run on the data of the second sheet that went on to its end.
C15_Witness ==
    /\ hoja = "segunda"
    /\ filas # <<>>
    /\ resultado = "dict"
    /\ total_registros = Len(filas)

\* A run that ended with a read error.
C15_ErrorLectura == error = "lectura" /\ pc = "done"

\* The lines a step prints.
Impreso == {consola'[i] : i \in (Len(consola) + 1)..Len(consola')}

\* The lines of the console report: what the analysis found.
LineasDeInforme ==
    {"cabecera", "top1", "estadisticas", "relacion",
     "total_clientes", "top10", "distribucion", "respuesta"}

\* C16 as stated: every line of the console report is printed in the report
\* phase, after the aggregation has finished and before the export starts.
C16_ReportOnlyBetweenAggregateAndExport ==
    [][\A m \in Impreso : m[1] \in LineasDeInforme => pc = "report"]_vars

\* The phase that follows each phase when the run goes on.
FaseSiguiente(fase) ==
    CASE fase = "load"      -> "validate"
      [] fase = "validate"  -> "clean"
      [] fase = "clean"     -> "aggregate"
      [] fase = "aggregate" -> "report"
      [] fase = "report"    -> "export"
      [] OTHER              -> "done"

\* The phases in which a line may be printed.
FasesDe(m) ==
    CASE m[1] \in {"error_archivo_no_existe", "error_lectura", "aviso_segunda_hoja"}
            -> {"load"}
      [] m[1] \in {"error_columna", "columnas_disponibles"} -> {"validate"}
      [] m[1] = "error_inesperado" -> {"clean", "aggregate", "report", "export"}
      [] m[1] = "cabecera" ->
            IF script = "region_genre" THEN {"aggregate"} ELSE {"report"}
      [] m[1] \in {"archivo_generado", "relacion"} -> {"export"}
      [] OTHER -> {"report"}

\* C16, amended: the phases run in the order load, validate, clean,
\* aggregate, report, export, each starting when the one before has ended,
\* and the output file is written in the export phase only.  The report is
\* printed in the report phase but for two parts of it in the region/genre
\* script: the header with the record counts is printed while aggregating,
\* before the contingency table is built, and the conclusion on the relation
\* between region and genre is printed at the end of the export phase, after
\* the output file is written.
C16_PhaseOrder ==
    [][/\ pc' \in {FaseSiguiente(pc), "done"}
       /\ \A m \in Impreso : pc \in FasesDe(m)
       /\ Len(consola') >= Len(consola)
       /\ SubSeq(consola', 1, Len(consola)) = consola
       /\ archivo_salida' # archivo_salida => pc = "export"
       /\ Msg("relacion", "") \in Impreso => archivo_salida' = "completo"
       /\ (script = "region_genre" /\ pc' = "report") => Msg("cabecera", "") \in Impreso
      ]_vars

\* A run of the region/genre script that succeeded: the header came first,
\* the conclusion last, after the line that names the file written.
C16_Witness ==
    /\ script = "region_genre"
    /\ resultado = "dict"
    /\ archivo_salida = "completo"
    /\ consola[Len(consola)] = Msg("relacion", "")
    /\ consola[Len(consola) - 1] = Msg("archivo_generado", "")
    /\ Msg("cabecera", "") \in Range(consola)

\* C17 as stated: the input workbook is never read a second time and the
\* output file is never written more than once.
C17_ReadOnceWriteOnce == lecturas <= 1 /\ escrituras <= 1

\* C17, amended: the output file is written at most once, in the export
\* phase; the input workbook is read once when its sheet 'Dataset' can be
\* read and twice when it cannot, the second read being the one of the sheet
\* at index 1, and not at all when the file is missing.  A run that succeeds
\* has read the input once or twice and written the output once.
C17_ReadsAndWrites ==
    /\ escrituras = (IF archivo_salida = "ausente" THEN 0 ELSE 1)
    /\ lecturas =
         (IF pc = "load" \/ ~archivo_existe THEN 0
          ELSE IF hoja = "Dataset" THEN 1 ELSE 2)
    /\ resultado \in {"dict", "df_analisis"} => (lecturas \in {1, 2} /\ escrituras = 1)

\* A run that succeeded on the second sheet: two reads, one write.
C17_Witness ==
    /\ resultado = "dict"
    /\ lecturas = 2
    /\ escrituras = 1


\* The frequency label whose name holds the view count n.
EtiquetaDeVistas(n) ==
    IF n = 1 THEN "Ocasional (1)"
    ELSE IF n \in 2..3 THEN "Frecuente (2-3)"
    ELSE IF n \in 4..10 THEN "Muy Frecuente (4-10)"
    ELSE IF n \in 11..50 THEN "Super Usuario (11-50)"
    ELSE "Power User (50+)"

\* C18: every customer's CATEGORIA_FRECUENCIA is the category whose label
\* range holds the customer's view count: 1 view 'Ocasional (1)', 2-3 views
\* 'Frecuente (2-3)', 4-10 'Muy Frecuente (4-10)', 11-50 'Super Usuario
\* (11-50)', more than 50 'Power User (50+)'.
C18_FrequencyCategoryMatchesLabel ==
    \A i \in DOMAIN analisis_completo :
        analisis_completo[i].CATEGORIA_FRECUENCIA =
            EtiquetaDeVistas(analisis_completo[i].FRECUENCIA_VISUALIZACIONES)

\* The aggregation step of the screentime script was taken.
AgregadoScreentime == script = "screentime" /\ Limpio /\ pc # "aggregate"

\* C19: for every non-empty cleaned input the classification step does not
\* fail and gives every analysed customer one of the three screentime
\* categories, customers with a total screentime of 0 and inputs whose 33rd
\* and 66th percentiles coincide included.
C19_EveryCustomerClassified ==
    (AgregadoScreentime /\ df_clean # <<>>) =>
        /\ pc = "report" \/ Msg("estadisticas", Len(analisis_completo)) \in Range(consola)
        /\ analisis_completo # <<>>
        /\ \A i \in DOMAIN analisis_completo :
              analisis_completo[i].CATEGORIA_SCREENTIME \in Range(labels_screentime)


\* The cleaned records of customer c in the devices script.
RegistrosDe(c) == {i \in DOMAIN df_clean : df_clean[i]["CUSTOMER_ID"].texto = c}

\* C20: df_analisis has one row for every customer of the cleaned records;
\* in it CANTIDAD_DISPOSITIVOS is the number of distinct DEVICE values of the
\* customer's records, TOTAL_VISUALIZACIONES the number of those records,
\* 1 <= CANTIDAD_DISPOSITIVOS <= TOTAL_VISUALIZACIONES, and
\* USA_MULTIPLES_DISPOSITIVOS is 'Sí' exactly when CANTIDAD_DISPOSITIVOS > 1;
\* the TOTAL_VISUALIZACIONES of all rows add up to the number of cleaned
\* records.
C20_DevicesPerCustomer ==
    (script = "devices" /\ df_analisis # <<>>) =>
        /\ \A c \in {df_clean[i]["CUSTOMER_ID"].texto : i \in DOMAIN df_clean} :
              Cardinality({k \in DOMAIN df_analisis : df_analisis[k].CUSTOMER_ID = c}) = 1
        /\ \A k \in DOMAIN df_analisis :
              LET f == df_analisis[k]
                  suyos == RegistrosDe(f.CUSTOMER_ID)
              IN  /\ f.CANTIDAD_DISPOSITIVOS =
                        Cardinality({df_clean[i]["DEVICE"].texto : i \in suyos})
                  /\ f.TOTAL_VISUALIZACIONES = Cardinality(suyos)
                  /\ 1 <= f.CANTIDAD_DISPOSITIVOS
                  /\ f.CANTIDAD_DISPOSITIVOS <= f.TOTAL_VISUALIZACIONES
                  /\ (f.USA_MULTIPLES_DISPOSITIVOS = "Si") <=> (f.CANTIDAD_DISPOSITIVOS > 1)
                  /\ f.USA_MULTIPLES_DISPOSITIVOS \in {"Si", "No"}
        /\ SumSeq([k \in DOMAIN df_analisis |-> df_analisis[k].TOTAL_VISUALIZACIONES])
              = Len(df_clean)

\* Two customers, one with several devices and one with a single device.
C20_Witness ==
    /\ script = "devices"
    /\ Len(df_analisis) = 2
    /\ \E k, m \in DOMAIN df_analisis :
          /\ df_analisis[k].USA_MULTIPLES_DISPOSITIVOS = "Si"
          /\ df_analisis[k].CANTIDAD_DISPOSITIVOS = 2
          /\ df_analisis[m].USA_MULTIPLES_DISPOSITIVOS = "No"
          /\ df_analisis[m].TOTAL_VISUALIZACIONES = 1


\* The customers of the cleaned records with more than one distinct device.
ConVariosDispositivos ==
    {c \in {df_clean[i]["CUSTOMER_ID"].texto : i \in DOMAIN df_clean} :
        Cardinality({df_clean[i]["DEVICE"].texto : i \in RegistrosDe(c)}) > 1}

\* C21: the summary counts partition the customers: clientes_multiples +
\* clientes_un_dispositivo = total_clientes and clientes_mas_de_dos <=
\* clientes_multiples; the sheet 'Clientes Múltiples' holds exactly the
\* customers with more than one distinct device, each once.
C21_SummaryPartitionsCustomers ==
    /\ (script = "devices" /\ df_analisis # <<>>) =>
          /\ estadisticas.total_clientes = Len(df_analisis)
          /\ estadisticas.clientes_multiples + estadisticas.clientes_un_dispositivo
                = estadisticas.total_clientes
          /\ estadisticas.clientes_mas_de_dos <= estadisticas.clientes_multiples
          /\ estadisticas.clientes_multiples = Cardinality(ConVariosDispositivos)
    /\ (script = "devices" /\ archivo_salida = "completo") =>
          /\ {df_multiples[k].CUSTOMER_ID : k \in DOMAIN df_multiples} = ConVariosDispositivos
          /\ Len(df_multiples) = Cardinality(ConVariosDispositivos)

\* A workbook written for two customers, one of them with several devices.
C21_Witness ==
    /\ script = "devices"
    /\ archivo_salida = "completo"
    /\ Len(df_analisis) = 2
    /\ Len(df_multiples) = 1
    /\ estadisticas.clientes_un_dispositivo = 1

\* A customer with more than two devices is counted.
C21_MasDeDos == script = "devices" /\ estadisticas.clientes_mas_de_dos > 0


\* The records of the loaded sheet whose CUSTOMER_ID is not null.
NoNulos == {i \in DOMAIN df.filas : ~df.filas[i]["CUSTOMER_ID"].nulo}

\* The records of the loaded sheet with the id t.
RegistrosDeId(t) == {i \in NoNulos : df.filas[i]["CUSTOMER_ID"].texto = t}

\* The customers script counted its ids.
Contado == script = "customers" /\ Limpio /\ pc # "aggregate"

\* C22: FRECUENCIA of each id is the number of non-null records with that
\* id and every id of a non-null record has one entry; the frequencies sum
\* to total_registros; ES_DUPLICADO is true exactly when FRECUENCIA > 1; the
\* reported number of duplicate records is the sum over the ids of
\* FRECUENCIA - 1; the duplicated ids are listed, all of them, in
\* non-increasing order of repetitions.
C22_CustomerFrequencies ==
    Contado =>
        /\ \A k \in DOMAIN contador :
              contador[k].FRECUENCIA = Cardinality(RegistrosDeId(contador[k].CUSTOMER_ID))
        /\ \A i \in NoNulos :
              Cardinality({k \in DOMAIN contador :
                  contador[k].CUSTOMER_ID = df.filas[i]["CUSTOMER_ID"].texto}) = 1
        /\ total_registros = Cardinality(NoNulos)
        /\ SumSeq([k \in DOMAIN contador |-> contador[k].FRECUENCIA]) = total_registros
        /\ Msg("registros_duplicados",
               SumSeq([k \in DOMAIN contador |-> contador[k].FRECUENCIA - 1]))
              \in Range(consola)
        /\ \A j \in DOMAIN consola :
              consola[j][1] = "duplicados" =>
                 LET lista == consola[j][2]
                 IN  /\ \A a, b \in DOMAIN lista :
                           a < b => lista[a].FRECUENCIA >= lista[b].FRECUENCIA
                     /\ Range(lista) = {e \in Range(contador) : e.FRECUENCIA > 1}
                     /\ Len(lista) = Cardinality(Range(lista))
        /\ resultados # <<>> =>
              /\ DOMAIN resultados = DOMAIN contador
              /\ \A k \in DOMAIN resultados :
                    /\ resultados[k].CUSTOMER_ID = contador[k].CUSTOMER_ID
                    /\ resultados[k].FRECUENCIA = contador[k].FRECUENCIA
                    /\ resultados[k].ES_DUPLICADO <=> (resultados[k].FRECUENCIA > 1)

\* The CSV is written for a sheet with two duplicated ids, the one met first
\* repeated less often than the other, and an id that differs from another
\* by a blank only.
C22_Witness ==
    /\ script = "customers"
    /\ archivo_salida = "completo"
    /\ resultados # <<>>
    /\ \E j \in DOMAIN consola :
          /\ consola[j][1] = "duplicados"
          /\ Len(consola[j][2]) = 2
          /\ consola[j][2][1].FRECUENCIA > consola[j][2][2].FRECUENCIA
          /\ \E a, b \in DOMAIN contador :
                /\ a < b
                /\ contador[a] = consola[j][2][2]
                /\ contador[b] = consola[j][2][1]

\* Ids that differ by a blank only are counted apart.
C22_SinStrip ==
    /\ script = "customers"
    /\ \E a, b \in DOMAIN resultados :
          /\ resultados[a].CUSTOMER_ID = <<"C2">>
          /\ resultados[b].CUSTOMER_ID = <<Blank, "C2">>


\* The genre script counted its genres.
GenerosContados == script = "genre" /\ Limpio /\ pc # "aggregate"

\* The cleaned records of the genre script with the genre g.
VistasDeGenero(g) == {i \in DOMAIN df_clean : df_clean[i]["GENRE"].texto = g}

\* t lists values that do not increase.
NoCreciente(t, campo) ==
    \A a, b \in DOMAIN t : a < b => t[a][campo] >= t[b][campo]

\* C23: the report lists the genres in non-increasing order of view count,
\* each genre of the cleaned records once with its count; the counts sum to
\* total_registros; the reported 'género más visto' has a count greater than
\* or equal to the count of every genre.
C23_GenresByViews ==
    GenerosContados =>
        /\ NoCreciente(conteo_generos, "valor")
        /\ {conteo_generos[k].etiqueta : k \in DOMAIN conteo_generos}
              = Valores(df_clean, "GENRE")
        /\ \A k \in DOMAIN conteo_generos :
              conteo_generos[k].valor
                 = Cardinality(VistasDeGenero(conteo_generos[k].etiqueta))
        /\ total_registros = Len(df_clean)
        /\ SumSeq([k \in DOMAIN conteo_generos |-> conteo_generos[k].valor])
              = total_registros
        /\ \A j \in DOMAIN consola :
              /\ consola[j][1] = "top10" => NoCreciente(consola[j][2], "valor")
              /\ consola[j][1] = "genero_mas_visto" =>
                    /\ consola[j][2] \in Range(conteo_generos)
                    /\ \A g \in Valores(df_clean, "GENRE") :
                          consola[j][2].valor >= Cardinality(VistasDeGenero(g))
        /\ reporte_df # <<>> =>
              /\ NoCreciente(reporte_df, "VISUALIZACIONES")
              /\ Len(reporte_df) = Len(conteo_generos)
              /\ SumSeq([k \in DOMAIN reporte_df |-> reporte_df[k].VISUALIZACIONES])
                    = total_registros

\* A report of three genres or more whose most viewed genre is not the first
\* genre of the sheet.
C23_Witness ==
    /\ script = "genre"
    /\ Len(reporte_df) >= 3
    /\ reporte_df[1].VISUALIZACIONES > reporte_df[3].VISUALIZACIONES
    /\ reporte_df[1].GENERO # df_clean[1]["GENRE"].texto
    /\ \E j \in DOMAIN consola :
          consola[j][1] = "genero_mas_visto" /\ consola[j][2].etiqueta = reporte_df[1].GENERO


\* The entries the pie chart is drawn from, as label and views.
FuenteGrafico ==
    IF script = "genre" THEN conteo_generos
    ELSE [k \in DOMAIN conteo_shows |->
            [etiqueta |-> conteo_shows[k].TITLE, valor |-> conteo_shows[k].VISUALIZACIONES]]

\* The first c rows of datos_grafico are the first c entries of the source.
Individuales(c) ==
    \A k \in 1..c :
        /\ datos_grafico[k].etiqueta = FuenteGrafico[k].etiqueta
        /\ datos_grafico[k].valor = FuenteGrafico[k].valor

\* datos_grafico is the first c entries and an 'Otros' that adds up the rest.
AgrupadoDesde(c) ==
    /\ Len(datos_grafico) = c + 1
    /\ Individuales(c)
    /\ datos_grafico[c + 1].etiqueta = <<"Otros">>
    /\ datos_grafico[c + 1].valor =
          SumSeq([k \in 1..(Len(FuenteGrafico) - c) |-> FuenteGrafico[c + k].valor])

\* The chart data of a run of the genre or the top-shows script was built.
Graficado ==
    /\ script \in {"genre", "top_shows"}
    /\ datos_grafico # <<>> \/ resultado \in {"reporte_df", "conteo_shows"}

\* C24: grouping the less frequent entries into 'Otros' conserves the total:
\* in the genre script (more than 10 genres) and in the top-shows script
\* (more than top_n shows, top_n any integer, 0 and negative values too) the
\* charted values of the kept entries and 'Otros' sum to the number of
\* cleaned records, every entry being charted by itself or inside 'Otros',
\* never both; without grouping the chart shows every entry.
C24_OtrosConservesTotal ==
    Graficado =>
        /\ SumSeq([k \in DOMAIN datos_grafico |-> datos_grafico[k].valor]) = Len(df_clean)
        /\ \/ Len(datos_grafico) = Len(FuenteGrafico) /\ Individuales(Len(FuenteGrafico))
           \/ \E c \in 0..Len(FuenteGrafico) : AgrupadoDesde(c)
        /\ (script = "genre" /\ Len(conteo_generos) > MaxGenerosGrafico)
              => AgrupadoDesde(MaxGenerosGrafico)
        /\ (script = "top_shows" /\ Len(conteo_shows) > top_n)
              => \E c \in 0..Len(conteo_shows) :
                    AgrupadoDesde(c) /\ (top_n >= 0 => c = top_n)

\* The top-shows script drew its chart for a negative top_n and several shows
\* of different views.
C24_Witness ==
    /\ script = "top_shows"
    /\ top_n < 0
    /\ Len(conteo_shows) >= 3
    /\ conteo_shows[1].VISUALIZACIONES > conteo_shows[3].VISUALIZACIONES
    /\ datos_grafico # <<>>
    /\ archivo_salida = "completo"

\* The genre script drew its chart for more than ten genres, two or more of
\* them inside 'Otros'.
C24_GenreOtros ==
    /\ script = "genre"
    /\ Len(conteo_generos) > MaxGenerosGrafico + 1
    /\ Len(datos_grafico) = MaxGenerosGrafico + 1
    /\ archivo_salida = "completo"

\* The top-shows script drew its chart for top_n = 0.
C24_TopNCero ==
    /\ script = "top_shows"
    /\ top_n = 0
    /\ Len(conteo_shows) >= 2
    /\ Len(datos_grafico) = 1

\* The top-shows script grouped shows for a positive top_n.
C24_TopNPositivo ==
    /\ script = "top_shows"
    /\ top_n > 0
    /\ Len(conteo_shows) > top_n
    /\ Len(datos_grafico) = top_n + 1


\* The top-shows script counted its shows.
ShowsContados == script = "top_shows" /\ Limpio /\ pc # "aggregate"

\* The cleaned records of the top-shows script with title t and genre g.
VistasDeShow(t, g) ==
    {i \in DOMAIN df_clean :
        df_clean[i]["TITLE"].texto = t /\ df_clean[i]["GENRE"].texto = g}

\* C25: the table 'Top por Género' has exactly one row for every genre of
\* the cleaned records, and the show of that row has at least as many views
\* as every (TITLE, GENRE) pair of the same genre.
C25_TopShowPerGenre ==
    ShowsContados =>
        /\ \A g \in Valores(df_clean, "GENRE") :
              Cardinality({k \in DOMAIN top_show_por_genero :
                              top_show_por_genero[k].GENRE = g}) = 1
        /\ Len(top_show_por_genero) = Cardinality(Valores(df_clean, "GENRE"))
        /\ \A k \in DOMAIN top_show_por_genero :
              LET f == top_show_por_genero[k]
              IN  /\ f.VISUALIZACIONES = Cardinality(VistasDeShow(f.TITLE, f.GENRE))
                  /\ f.VISUALIZACIONES > 0
                  /\ \A t \in Valores(df_clean, "TITLE") :
                        f.VISUALIZACIONES >= Cardinality(VistasDeShow(t, f.GENRE))

\* Two genres, one of them with two shows of different views.
C25_Witness ==
    /\ script = "top_shows"
    /\ Len(top_show_por_genero) = 2
    /\ \E k \in DOMAIN top_show_por_genero, a \in DOMAIN conteo_shows :
          /\ conteo_shows[a].GENRE = top_show_por_genero[k].GENRE
          /\ conteo_shows[a].VISUALIZACIONES < top_show_por_genero[k].VISUALIZACIONES

\* C26: the rows of conteo_shows are in non-increasing order of
\* VISUALIZACIONES, which sum to total_visualizaciones; PORCENTAJE is the
\* share of the row rounded to four decimals; PORCENTAJE_ACUMULADO is the
\* running sum of PORCENTAJE, does not decrease down the table, and its last
\* value is 100 within half a unit of the fourth decimal for every row.
C26_CumulativePercent ==
    ShowsContados =>
        /\ NoCreciente(conteo_shows, "VISUALIZACIONES")
        /\ total_registros = Len(df_clean)
        /\ SumSeq([k \in DOMAIN conteo_shows |-> conteo_shows[k].VISUALIZACIONES])
              = total_registros
        /\ \A k \in DOMAIN conteo_shows :
              /\ 2 * Abs(conteo_shows[k].PORCENTAJE * total_registros
                         - conteo_shows[k].VISUALIZACIONES * 100 * DiezMilesimas)
                    <= total_registros
              /\ conteo_shows[k].PORCENTAJE_ACUMULADO
                    = SumSeq([j \in 1..k |-> conteo_shows[j].PORCENTAJE])
              /\ k > 1 => conteo_shows[k].PORCENTAJE_ACUMULADO
                             >= conteo_shows[k - 1].PORCENTAJE_ACUMULADO
        /\ conteo_shows # <<>> =>
              2 * Abs(conteo_shows[Len(conteo_shows)].PORCENTAJE_ACUMULADO
                      - 100 * DiezMilesimas) <= Len(conteo_shows)

\* A finished run with three shows whose rounded percentages do not add up
\* to 100.
C26_Witness ==
    /\ script = "top_shows"
    /\ Len(conteo_shows) = 3
    /\ conteo_shows[3].PORCENTAJE_ACUMULADO # 100 * DiezMilesimas
    /\ Len(df_clean) >= 3
    /\ pc = "done"

\* Shows of different views, the less viewed one first in the sheet.
C26_Ordenado ==
    /\ script = "top_shows"
    /\ Len(conteo_shows) >= 2
    /\ conteo_shows[1].VISUALIZACIONES > conteo_shows[2].VISUALIZACIONES
    /\ df_clean[1]["TITLE"].texto # conteo_shows[1].TITLE

====
